---- MODULE Spec2Model ----
(***************************************************************************)
(* State-machine model of the TrifectaJS CLI core:                         *)
(*   - NeonAdapter.createBranch and its private steps (neonAdapter.ts),    *)
(*   - NeonAdapter.runMigrations / runCheck against one database,          *)
(*   - DBConnection.transaction (the pooled query gateway).                *)
(* The specifications of the module: Spec (one createBranch invocation),   *)
(* SpecLive (Spec with fairness), SpecForce (the force argument passed),   *)
(* SpecRetry (successive invocations on one project), SpecPair (two        *)
(* concurrent invocations), SpecDb (migrations and schema check), SpecTx   *)
(* (transactions), SpecGate (the DBConnection object, its queries, its     *)
(* table verification and close) and SpecBoth (the legacy createNeonBranch *)
(* of part_001 beside createBranch on one script of answers).              *)
(***************************************************************************)
EXTENDS Integers, Sequences, FiniteSets, TLC

VARIABLES
    \* ---- NeonAdapter.createBranch ----
    force,            \* this.force, set by the constructor
    forceArg,         \* the optional `force` argument createBranch was called with
    branches,         \* the remote project's branches (what GET /branches lists)
    pc,               \* position of the createBranch invocation
    listing,          \* result.data.branches as received (<<>> before / without)
    existingBranch,   \* <<>> (undefined) or <<branch>>
    primaryBranchId,  \* <<>> or <<id>>
    branchId,         \* <<>> (undefined) or <<id>>
    newBranch,        \* <<>> or <<branch of the create response>>
    opIdx,            \* index of the operation being awaited
    attempts,         \* waitForOperation: attempts
    delay,            \* waitForOperation: delay
    lastOp,           \* <<>> or <<operation observed by the latest poll>>
    finished,         \* indexes of the operations observed `finished`
    polls,            \* status fetches issued by the running waitForOperation call
    reqs,             \* the HTTP requests issued, in order (the repeats of one
                      \* call's status fetch are counted in polls, logged once)
    sleeps,           \* the delays the running waitForOperation call has slept
    defaultDB,        \* <<>> or <<name>>
    defaultRole,      \* <<>> or <<name>>
    connUri,          \* <<>> or <<uri of the connection_uri response>>
    databases,        \* <<>> or <<dbResult.data.databases as received>>
    roles,            \* <<>> or <<rolesResult.data.roles as received>>
    clean,            \* every remote call so far succeeded with a usable answer
    lastBad,          \* <<>> or <<the latest response that was not a parsed 2xx one>>
    outcome,          \* how createBranch settled
    \* ---- runMigrations / runCheck ----
    db,               \* the target database
    job,              \* the running runMigrations / runCheck invocation
    runs,             \* the settled runMigrations / runCheck invocations, in order
    \* ---- DBConnection ----
    conn,             \* the DBConnection object (pool / sqlFunction)
    txs,              \* the transaction() invocations
    \* ---- two concurrent createBranch invocations on one adapter ----
    calls,            \* position and outcome of each invocation
    frames,           \* the local variables of the invocations, by activation record
    remote,           \* the project's branches, deleted ones kept as not live
    wire,             \* the requests issued, each with the invocation that issued it
    \* ---- successive createBranch invocations on one project ----
    history,          \* what each earlier invocation created and whether it awaited it
    \* ---- DBConnection: constructor, query, close ----
    gate,             \* how the constructor ended and what became of its verification
    queryCalls,       \* the query() invocations of the callers
    closes,           \* the close() invocations
    \* ---- createNeonBranch and NeonAdapter.createBranch on one script of answers ----
    given,            \* the force flag and the project both are called with
    sides             \* the locals, requests and outcome of each implementation

adapterVars == <<force, forceArg, databases, roles, branches, pc, listing, existingBranch, primaryBranchId,
                 branchId, newBranch, opIdx, attempts, delay, lastOp, finished,
                 polls, reqs, sleeps, defaultDB, defaultRole, connUri, clean, lastBad, outcome>>
dbVars == <<db, job, runs>>
connVars == <<conn, txs>>
pairVars == <<calls, frames, remote, wire>>
callVars == <<history>>
gateVars == <<gate, queryCalls, closes>>
legacyVars == <<given, sides>>
vars == <<adapterVars, dbVars, connVars, pairVars, callVars, gateVars, legacyVars>>

(***************************************************************************)
(* Bounds of the model and constants of the program                        *)
(***************************************************************************)
MaxBranches == 2
MaxOps == 2
MaxCalls == 2
MaxList == 2
maxAttempts == 30
BaseDelay == 1000
MaxDelay == 16000

NEON_API_URL == "https://console.neon.tech/api/v2"
BranchName == "trifectajs"
\* the branches a listing is drawn from: the one named BranchName under either of two
\* ids (an id is any string, the empty one included), primary or not; "main", primary;
\* "dev", not primary
BranchNames == {BranchName, "main", "dev"}
BranchIds == {"", "br-old", "br-main", "br-dev"}
IdsOf(name) ==
    IF name = BranchName THEN {"", "br-old"}
    ELSE IF name = "main" THEN {"br-main"} ELSE {"br-dev"}
PrimaryOf(name) ==
    IF name = BranchName THEN BOOLEAN
    ELSE IF name = "main" THEN {TRUE} ELSE {FALSE}
\* the id the remote gives to a branch it creates: never one it has listed
NewBranchId == "br-new"
CreatedIds == {NewBranchId, ""}
\* ids of the operations a create response lists, in order
OperationIds == <<"op-1", "op-2", "op-3", "op-4">>
OperationActions == {"create_branch"}
PendingStatuses == {"scheduling", "running"}
OperationStatuses == PendingStatuses \cup {"finished", "failed"}
HttpStatuses == {200, 299, 300, 399, 400, 500}
Locations == {"https://evil.example/api", "null"}
DatabaseNames == {"neondb", "other"}
RoleNames == {"owner", "reader"}
Uris == {"", "postgresql://owner@host/neondb"}

(***************************************************************************)
(* JavaScript values                                                       *)
(***************************************************************************)
Undefined == <<>>
Some(v) == <<v>>
\* new Error(msg), with the interpolated parts of the message kept apart
Error(msg, status, text) == [msg |-> msg, status |-> status, text |-> text]
TypeError == Error("TypeError", 0, "")
\* a || b on an optional error
OrElse(e, msg) == IF e # Undefined THEN e[1] ELSE Error(msg, 0, "")
\* !s on a string
FalsyString(s) == s = ""

\* Result<T> of adapters/types.ts, plus `raised` for an exception escaping the step
Ok(v) == [raised |-> FALSE, success |-> TRUE, data |-> Some(v), error |-> Undefined]
OkVoid == [raised |-> FALSE, success |-> TRUE, data |-> Undefined, error |-> Undefined]
Fail(e) == [raised |-> FALSE, success |-> FALSE, data |-> Undefined, error |-> Some(e)]
Raise(e) == [raised |-> TRUE, success |-> FALSE, data |-> Undefined, error |-> Some(e)]

(***************************************************************************)
(* HTTP: requests, responses, fetchNeonAPI                                 *)
(***************************************************************************)
\* a JSON body after response.json()
JsonNull == [shape |-> "null", val |-> <<>>]
JsonNoField == [shape |-> "nofield", val |-> <<>>]
JsonObject(v) == [shape |-> "object", val |-> v]
\* !data on a parsed body
FalsyBody(b) == b.shape = "null"
\* !result.data
NoData(result) == result.data = Undefined \/ FalsyBody(result.data[1])

NetworkFault ==
    [fault |-> TRUE, status |-> 0, location |-> "null", text |-> "ECONNRESET",
     parses |-> FALSE, body |-> JsonNull]
\* every answer one fetch() can get when a 2xx JSON body would be one of Bodies
\* (a Location header only where it is read, a body only where it is parsed)
Response(status, location, parses, body) ==
    [fault |-> FALSE, status |-> status, location |-> location, text |-> "denied",
     parses |-> parses, body |-> body]
Responses(Bodies) ==
    {NetworkFault}
    \cup {Response(st, l, FALSE, JsonNull) :
            st \in {x \in HttpStatuses : x >= 300 /\ x < 400}, l \in Locations}
    \cup {Response(st, "null", FALSE, JsonNull) : st \in {x \in HttpStatuses : x >= 400}}
    \cup {Response(st, "null", FALSE, JsonNull) : st \in {x \in HttpStatuses : x < 300}}
    \cup {Response(st, "null", TRUE, b) :
            st \in {x \in HttpStatuses : x < 300}, b \in Bodies \cup {JsonNull, JsonNoField}}

IsRedirect(resp) == ~resp.fault /\ resp.status >= 300 /\ resp.status < 400
\* response.ok
IsOk(resp) == ~resp.fault /\ resp.status >= 200 /\ resp.status < 300
\* a 2xx answer whose body parsed to an object with the expected field
Usable(resp) == IsOk(resp) /\ resp.parses /\ resp.body.shape = "object"

\* the latest response that was not a parsed 2xx one
Seen(last, resp) == IF IsOk(resp) /\ resp.parses THEN last ELSE Some(resp)

\* the endpoint and options handed to fetchNeonAPI
Endpoint(method, ep, id, name, parent, database, role) ==
    [method |-> method, ep |-> ep, id |-> id, name |-> name, parent |-> parent,
     database |-> database, role |-> role]
ListBranches == Endpoint("GET", "branches", "", "", "", "", "")
DeleteBranch(id) == Endpoint("DELETE", "branches/:id", id, "", "", "", "")
PostBranch(name, parent) == Endpoint("POST", "branches", "", name, parent, "", "")
GetOperation(i) == Endpoint("GET", "operations/:id", i, "", "", "", "")
GetDatabases(id) == Endpoint("GET", "branches/:id/databases", id, "", "", "", "")
GetRoles(id) == Endpoint("GET", "branches/:id/roles", id, "", "", "", "")
GetConnectionUri(id, database, role) ==
    Endpoint("GET", "connection_uri", id, "", "", database, role)

\* this.headers: Authorization is on every request
createAPIHeaders == [authorization |-> TRUE]
\* one request on the wire
Wire(base, e) == [base |-> base, headers |-> createAPIHeaders, endpoint |-> e]

\* a fetch layer that sends the request again after a network fault
FetchRequestsRetrying(e, resp) ==
    IF resp.fault THEN <<Wire(NEON_API_URL, e), Wire(NEON_API_URL, e)>>
                  ELSE <<Wire(NEON_API_URL, e)>>

\* fetch with redirect: "follow": the request is repeated at the Location
FetchRequestsFollowing(e, resp) ==
    IF IsRedirect(resp) THEN <<Wire(NEON_API_URL, e), Wire(resp.location, e)>>
                        ELSE <<Wire(NEON_API_URL, e)>>
\* the requests one fetchNeonAPI call puts on the wire (redirect: "manual")
FetchRequests(e, resp) == <<Wire(NEON_API_URL, e)>>

\* fetchNeonAPI without the `!response.ok` test: every non-redirect answer is parsed
fetchNeonAPIUnchecked(resp) ==
    IF resp.fault THEN Fail(Error(resp.text, 0, ""))
    ELSE IF resp.status >= 300 /\ resp.status < 400
        THEN Fail(Error("Redirect detected to", 0, resp.location))
    ELSE IF ~resp.parses THEN Fail(Error("SyntaxError", 0, ""))
    ELSE Ok(resp.body)

\* the Result one fetchNeonAPI call returns
fetchNeonAPI(resp) ==
    IF resp.fault THEN Fail(Error(resp.text, 0, ""))
    ELSE IF resp.status >= 300 /\ resp.status < 400
        THEN Fail(Error("Redirect detected to", 0, resp.location))
    ELSE IF ~(resp.status >= 200 /\ resp.status < 300)
        THEN Fail(Error("API error", resp.status, resp.text))
    ELSE IF ~resp.parses THEN Fail(Error("SyntaxError", 0, ""))
    ELSE Ok(resp.body)

(***************************************************************************)
(* The private steps of NeonAdapter, as functions of the Result of their   *)
(* remote call                                                             *)
(***************************************************************************)
Min(S) == CHOOSE x \in S : \A y \in S : x <= y
\* Array.prototype.find, given the indexes that satisfy the predicate
Find(bs, hit) == IF hit = {} THEN Undefined ELSE Some(bs[Min(hit)])
\* the first branch listed taken for the primary one
FindPrimaryFirstListed(bs) == IF bs = <<>> THEN Undefined ELSE Some(bs[1])
FindPrimary(bs) == Find(bs, {i \in 1..Len(bs) : bs[i].primary = TRUE})
FindByName(bs, name) == Find(bs, {i \in 1..Len(bs) : bs[i].name = name})

\* checkExistingBranch without the primary check: the branch found by name stands in
checkExistingBranchUnchecked(result, branchName) ==
    IF ~result.success \/ NoData(result)
        THEN Fail(OrElse(result.error, "Failed to fetch branches"))
    ELSE IF result.data[1].shape # "object" THEN Raise(TypeError)
    ELSE LET bs == result.data[1].val
             primaryBranch == IF FindPrimary(bs) # Undefined THEN FindPrimary(bs)
                              ELSE FindByName(bs, branchName)
         IN  IF primaryBranch = Undefined
                 THEN Fail(Error("Could not find primary branch", 0, ""))
                 ELSE Ok([existingBranch |-> FindByName(bs, branchName),
                          primaryBranchId |-> primaryBranch[1].id])

checkExistingBranch(result, branchName) ==
    IF ~result.success \/ NoData(result)
        THEN Fail(OrElse(result.error, "Failed to fetch branches"))
    ELSE IF result.data[1].shape # "object" THEN Raise(TypeError)
    ELSE LET bs == result.data[1].val
             primaryBranch == FindPrimary(bs)
         IN  IF primaryBranch = Undefined
                 THEN Fail(Error("Could not find primary branch", 0, ""))
                 ELSE Ok([existingBranch |-> FindByName(bs, branchName),
                          primaryBranchId |-> primaryBranch[1].id])

\* the force flag read upside down
ShouldDeleteInverted(f) == ~f
\* the branch of `if (this.force)`
ShouldDelete(f) == f

\* handleExistingBranch after its DELETE answered
handleExistingBranchForced(result) ==
    IF ~result.success
        THEN Fail(OrElse(result.error, "Failed to delete branch"))
        ELSE OkVoid

\* handleExistingBranch without force
handleExistingBranchReuse(existing) == Ok(existing.id)

\* `if (!branchId)` of createBranch
NoBranchId(id) == id = Undefined \/ FalsyString(id[1])

\* createBranchWithEndpoint up to the operations loop
createBranchPosted(result) ==
    IF ~result.success \/ NoData(result)
        THEN Fail(OrElse(result.error, "Failed to create branch"))
    ELSE IF result.data[1].shape # "object" THEN Raise(TypeError)
    ELSE Ok(result.data[1].val)

\* delay = Math.min(delay * 2, 16000)
\* a delay that doubles without the cap
NextDelayUncapped(d) == d * 2
NextDelay(d) == IF d * 2 < MaxDelay THEN d * 2 ELSE MaxDelay

\* a poll that takes `failed` for one more pending status
PollVerdictIgnoringFailed(result) ==
    IF ~result.success \/ NoData(result) THEN "error"
    ELSE IF result.data[1].shape # "object" THEN "raise"
    ELSE IF result.data[1].val.status = "finished" THEN "finished"
    ELSE "pending"

\* a poll that takes a failure Result of the status fetch for a pending status
PollVerdictRetryingErrors(result) ==
    IF ~result.success \/ NoData(result) THEN "pending"
    ELSE IF result.data[1].shape # "object" THEN "raise"
    ELSE IF result.data[1].val.status = "finished" THEN "finished"
    ELSE IF result.data[1].val.status = "failed" THEN "failed"
    ELSE "pending"

\* one iteration of the waitForOperation loop: what it decides
\* "finished" | "failed" | "pending" | "error" | "raise"
PollVerdict(result) ==
    IF ~result.success \/ NoData(result) THEN "error"
    ELSE IF result.data[1].shape # "object" THEN "raise"
    ELSE IF result.data[1].val.status = "finished" THEN "finished"
    ELSE IF result.data[1].val.status = "failed" THEN "failed"
    ELSE "pending"

\* a loop without the attempt limit
MayRetryForever(n) == TRUE
\* `attempts <= maxAttempts`: one iteration too many
MayRetryOnceMore(n) == n <= maxAttempts
\* the loop condition `attempts < maxAttempts`
MayRetry(n) == n < maxAttempts

\* the last entry of the listing taken for its first
lastOfList(result, failMsg, emptyMsg) ==
    IF ~result.success \/ NoData(result)
        THEN Fail(OrElse(result.error, failMsg))
    ELSE IF result.data[1].shape # "object" \/ Len(result.data[1].val) = 0
        THEN Fail(Error(emptyMsg, 0, ""))
    ELSE Ok(result.data[1].val[Len(result.data[1].val)])

\* the first entry of a listing of databases or of roles
\* (`!data.list || data.list.length === 0`, then list[0]?.name)
firstOfList(result, failMsg, emptyMsg) ==
    IF ~result.success \/ NoData(result)
        THEN Fail(OrElse(result.error, failMsg))
    ELSE IF result.data[1].shape # "object" \/ Len(result.data[1].val) = 0
        THEN Fail(Error(emptyMsg, 0, ""))
    ELSE Ok(result.data[1].val[1])

\* getConnectionString after the connection_uri request answered
connectionUri(result) ==
    IF ~result.success \/ NoData(result)
        THEN Fail(OrElse(result.error, "Failed to get connection URI"))
    ELSE IF result.data[1].shape # "object" \/ FalsyString(result.data[1].val)
        THEN Fail(Error("No connection URI found in response", 0, ""))
    ELSE Ok(result.data[1].val)

(***************************************************************************)
(* createBranch as a state machine: one action per awaited remote call     *)
(***************************************************************************)
SeqsUpTo(S, n) == UNION {[1..k -> S] : k \in 0..n}
\* the listings of databases or of roles of a branch: names are unique in a branch
NamesUpTo(S, n) == {q \in SeqsUpTo(S, n) : \A k, m \in 1..Len(q) : q[k] = q[m] => k = m}
Branch ==
    {b \in [id : BranchIds, name : BranchNames, primary : BOOLEAN] :
        b.id \in IdsOf(b.name) /\ b.primary \in PrimaryOf(b.name)}

Pending == [kind |-> "pending", value |-> "", error |-> Error("", 0, ""), escaped |-> FALSE]
Returned(v) == [kind |-> "returned", value |-> v, error |-> Error("", 0, ""), escaped |-> FALSE]
\* `throw r.error || new Error(msg)`, or the exception that escaped the step
Thrown(r, msg) ==
    [kind |-> "thrown", value |-> "", error |-> OrElse(r.error, msg), escaped |-> r.raised]

\* a constructed adapter and one createBranch call, its force argument one of args
InitCall(args) ==
    /\ force \in BOOLEAN
    /\ forceArg \in args
    /\ databases = Undefined
    /\ roles = Undefined
    /\ branches \in SeqsUpTo(Branch, MaxBranches)
    /\ pc = "check"
    /\ listing = Undefined
    /\ existingBranch = Undefined
    /\ primaryBranchId = Undefined
    /\ branchId = Undefined
    /\ newBranch = Undefined
    /\ opIdx = 0
    /\ attempts = 0
    /\ delay = BaseDelay
    /\ lastOp = Undefined
    /\ finished = {}
    /\ polls = 0
    /\ reqs = <<>>
    /\ sleeps = <<>>
    /\ defaultDB = Undefined
    /\ defaultRole = Undefined
    /\ connUri = Undefined
    /\ clean = TRUE
    /\ lastBad = Undefined
    /\ outcome = Pending
    /\ history = <<>>

\* the call of the CLI: createBranch(options.branchName), no force argument
InitAdapter == InitCall({Undefined})
\* a call through DatabaseAdapter.createBranch(branchName, force)
InitAdapterForce == InitCall({Some(TRUE), Some(FALSE)})

\* the adapter before any call, for the specifications that do not use it
IdleAdapter ==
    /\ force = FALSE
    /\ forceArg = Undefined
    /\ databases = Undefined
    /\ roles = Undefined
    /\ branches = <<>>
    /\ pc = "idle"
    /\ listing = Undefined
    /\ existingBranch = Undefined
    /\ primaryBranchId = Undefined
    /\ branchId = Undefined
    /\ newBranch = Undefined
    /\ opIdx = 0
    /\ attempts = 0
    /\ delay = BaseDelay
    /\ lastOp = Undefined
    /\ finished = {}
    /\ polls = 0
    /\ reqs = <<>>
    /\ sleeps = <<>>
    /\ defaultDB = Undefined
    /\ defaultRole = Undefined
    /\ connUri = Undefined
    /\ clean = TRUE
    /\ lastBad = Undefined
    /\ outcome = Pending
    /\ history = <<>>

\* createBranch settles
Settle(o) == pc' = "done" /\ outcome' = o

\* lines 33-47: checkExistingBranch, then the choice of the next step
CreateBranch_Check ==
    /\ pc = "check"
    /\ \E resp \in Responses({JsonObject(branches)}) :
        LET result == fetchNeonAPI(resp)
            branchResult == checkExistingBranch(result, BranchName)
        IN  /\ reqs' = reqs \o FetchRequests(ListBranches, resp)
            /\ lastBad' = Seen(lastBad, resp)
            /\ clean' = (clean /\ Usable(resp))
            /\ listing' = IF Usable(resp) THEN Some(resp.body.val) ELSE Undefined
            /\ IF branchResult.raised \/ ~branchResult.success \/ branchResult.data = Undefined
                 THEN /\ Settle(Thrown(branchResult, "Failed to check existing branches"))
                      /\ UNCHANGED <<existingBranch, primaryBranchId>>
                 ELSE /\ existingBranch' = branchResult.data[1].existingBranch
                      /\ primaryBranchId' = Some(branchResult.data[1].primaryBranchId)
                      /\ pc' = IF existingBranch' # Undefined THEN "handle" ELSE "create"
                      /\ UNCHANGED outcome
    /\ UNCHANGED <<force, forceArg, databases, roles, branches, branchId, newBranch, opIdx, attempts, delay, lastOp,
                   finished, polls, sleeps, defaultDB, defaultRole, connUri>>
    /\ UNCHANGED <<dbVars, connVars, pairVars, callVars, gateVars, legacyVars>>

\* remove by id, as the remote does on DELETE
WithoutBranch(bs, id) == SelectSeq(bs, LAMBDA b : b.id # id)

\* lines 41-47 and 232-260: handleExistingBranch
CreateBranch_Handle ==
    /\ pc = "handle"
    /\ LET existing == existingBranch[1]
       IN  IF ShouldDelete(force)
             THEN \E resp \in Responses({JsonObject(<<>>)}) :
                    LET result == fetchNeonAPI(resp)
                        handleResult == handleExistingBranchForced(result)
                    IN  /\ reqs' = reqs \o FetchRequests(DeleteBranch(existing.id), resp)
                        /\ lastBad' = Seen(lastBad, resp)
                        /\ clean' = (clean /\ IsOk(resp) /\ resp.parses)
                        /\ branches' = IF IsOk(resp) THEN WithoutBranch(branches, existing.id)
                                                    ELSE branches
                        /\ IF ~handleResult.success
                             THEN /\ Settle(Thrown(handleResult, "Failed to handle existing branch"))
                                  /\ UNCHANGED branchId
                             ELSE /\ branchId' = handleResult.data
                                  /\ pc' = IF NoBranchId(branchId') THEN "create" ELSE "databases"
                                  /\ UNCHANGED outcome
             ELSE LET handleResult == handleExistingBranchReuse(existing)
                  IN  /\ branchId' = handleResult.data
                      /\ pc' = IF NoBranchId(branchId') THEN "create" ELSE "databases"
                      /\ UNCHANGED <<reqs, clean, lastBad, branches, outcome>>
    /\ UNCHANGED <<force, forceArg, databases, roles, listing, existingBranch, primaryBranchId, newBranch, opIdx,
                   attempts, delay, lastOp, finished, polls, sleeps, defaultDB, defaultRole,
                   connUri>>
    /\ UNCHANGED <<dbVars, connVars, pairVars, callVars, gateVars, legacyVars>>

\* lines 51-55: createBranch takes the id createBranchWithEndpoint returned
AfterCreate(id) ==
    IF FalsyString(id)
        THEN /\ Settle(Thrown(Ok(id), "Failed to create branch with endpoint"))
             /\ UNCHANGED branchId
        ELSE /\ branchId' = Some(id)
             /\ pc' = "databases"
             /\ UNCHANGED outcome

\* lines 49-55 and 265-299: the POST of createBranchWithEndpoint
CreateBranch_Create ==
    /\ pc = "create"
    /\ \E n \in 0..MaxOps, id \in CreatedIds :
       \E resp \in Responses({JsonObject([id |-> id, name |-> BranchName, nops |-> n])}) :
        LET result == fetchNeonAPI(resp)
            posted == createBranchPosted(result)
        IN  /\ reqs' = reqs \o FetchRequests(PostBranch(BranchName, primaryBranchId[1]), resp)
            /\ lastBad' = Seen(lastBad, resp)
            /\ clean' = (clean /\ Usable(resp) /\ ~FalsyString(id))
            /\ branches' = IF IsOk(resp)
                             THEN Append(branches, [id |-> id, name |-> BranchName, primary |-> FALSE])
                             ELSE branches
            /\ IF posted.raised \/ ~posted.success
                 THEN /\ Settle(Thrown(posted, "Failed to create branch with endpoint"))
                      /\ UNCHANGED <<newBranch, opIdx, branchId>>
                 ELSE /\ newBranch' = posted.data
                      /\ IF posted.data[1].nops > 0
                           THEN /\ pc' = "wait"
                                /\ opIdx' = 1
                                /\ UNCHANGED <<outcome, branchId>>
                           ELSE /\ AfterCreate(posted.data[1].id)
                                /\ UNCHANGED opIdx
    /\ UNCHANGED <<force, forceArg, databases, roles, listing, existingBranch, primaryBranchId, attempts, delay,
                   lastOp, finished, polls, sleeps, defaultDB, defaultRole, connUri>>
    /\ UNCHANGED <<dbVars, connVars, pairVars, callVars, gateVars, legacyVars>>

\* waitForOperation returned success: its locals are gone
WaitReturned ==
    /\ attempts' = 0
    /\ delay' = BaseDelay
    /\ polls' = 0
    /\ sleeps' = <<>>
    /\ lastOp' = Undefined

\* a loop over the operations that goes on to the next one after a failed wait
WaitFailedSkipped(r, n, op) ==
    /\ UNCHANGED <<pc, outcome>>
    /\ attempts' = 0
    /\ polls' = 0
    /\ lastOp' = Undefined
    /\ opIdx' = IF opIdx < newBranch[1].nops THEN opIdx + 1 ELSE opIdx
    /\ UNCHANGED <<delay, sleeps, finished, branchId>>

\* waitForOperation returned a failure or raised: createBranch settles with it
WaitFailed(r, n, op) ==
    /\ Settle(Thrown(r, "Failed to create branch with endpoint"))
    /\ attempts' = n
    /\ polls' = polls + 1
    /\ lastOp' = op
    /\ UNCHANGED <<delay, sleeps, finished, opIdx, branchId>>

\* a loop over the operations that ends after the first one
IsLastOperationAlways(i, b) == TRUE

\* lines 299-310: the for loop over newBranch.operations ends after the last one
IsLastOperation(i, b) == i = b.nops

\* lines 299-312 and 390-437: one iteration of the waitForOperation loop for the
\* operation being awaited, and what follows when the loop ends
CreateBranch_Poll ==
    /\ pc = "wait"
    /\ \E resp \in Responses({JsonObject([id |-> OperationIds[opIdx], action |-> act,
                                          status |-> st]) :
                                 st \in OperationStatuses, act \in OperationActions}) :
        LET result == fetchNeonAPI(resp)
            st == IF Usable(resp) THEN resp.body.val.status ELSE ""
            verdict == PollVerdict(result)
            n == attempts + 1
            last == IsLastOperation(opIdx, newBranch[1])
            op == IF Usable(resp) THEN Some(result.data[1].val) ELSE Undefined
        IN  /\ reqs' = IF polls = 0
                         THEN reqs \o FetchRequests(GetOperation(OperationIds[opIdx]), resp)
                         ELSE reqs
            /\ lastBad' = Seen(lastBad, resp)
            /\ clean' = (clean /\ Usable(resp) /\ st # "failed"
                               /\ (st = "finished" \/ MayRetry(n)))
            /\ CASE verdict = "error" ->
                      WaitFailed(Fail(OrElse(result.error, "Failed to check operation status")), n, op)
                 [] verdict = "raise" ->
                      WaitFailed(Raise(TypeError), n, op)
                 [] verdict = "failed" ->
                      WaitFailed(Fail(Error("Operation failed", 0, result.data[1].val.action)), n, op)
                 [] verdict = "finished" ->
                      /\ finished' = finished \cup {opIdx}
                      /\ WaitReturned
                      /\ IF last
                           THEN /\ AfterCreate(newBranch[1].id)
                                /\ UNCHANGED opIdx
                           ELSE /\ opIdx' = opIdx + 1
                                /\ UNCHANGED <<pc, outcome, branchId>>
                 [] OTHER ->
                      /\ delay' = NextDelay(delay)
                      /\ sleeps' = Append(sleeps, delay')
                      /\ attempts' = n
                      /\ polls' = polls + 1
                      /\ lastOp' = op
                      /\ UNCHANGED <<finished, opIdx, branchId>>
                      /\ IF MayRetry(n)
                           THEN UNCHANGED <<pc, outcome>>
                           ELSE Settle(Thrown(Fail(Error("Timed out waiting for operation to complete", 0, "")),
                                              "Failed to create branch with endpoint"))
    /\ UNCHANGED <<force, forceArg, databases, roles, branches, listing, existingBranch, primaryBranchId, newBranch,
                   defaultDB, defaultRole, connUri>>
    /\ UNCHANGED <<dbVars, connVars, pairVars, callVars, gateVars, legacyVars>>

\* lines 57-60 and 318-340: the database listing of getConnectionString
CreateBranch_Databases ==
    /\ pc = "databases"
    /\ \E resp \in Responses({JsonObject(names) : names \in NamesUpTo(DatabaseNames, MaxList)}) :
        LET result == fetchNeonAPI(resp)
            names == IF Usable(resp) THEN resp.body.val ELSE <<>>
            first == firstOfList(result, "Failed to fetch databases",
                                 "No databases found in the branch")
        IN  /\ reqs' = reqs \o FetchRequests(GetDatabases(branchId[1]), resp)
            /\ lastBad' = Seen(lastBad, resp)
            /\ clean' = (clean /\ Usable(resp) /\ names # <<>>)
            /\ databases' = IF Usable(resp) THEN Some(names) ELSE Undefined
            /\ IF ~first.success
                 THEN /\ Settle(Thrown(first, "Failed to get connection string"))
                      /\ UNCHANGED defaultDB
                 ELSE /\ defaultDB' = first.data
                      /\ pc' = "roles"
                      /\ UNCHANGED outcome
    /\ UNCHANGED <<force, forceArg, roles, branches, listing, existingBranch, primaryBranchId, branchId,
                   newBranch, opIdx, attempts, delay, lastOp, finished, polls, sleeps,
                   defaultRole, connUri>>
    /\ UNCHANGED <<dbVars, connVars, pairVars, callVars, gateVars, legacyVars>>

\* lines 342-361: the role listing of getConnectionString
CreateBranch_Roles ==
    /\ pc = "roles"
    /\ \E resp \in Responses({JsonObject(names) : names \in NamesUpTo(RoleNames, MaxList)}) :
        LET result == fetchNeonAPI(resp)
            names == IF Usable(resp) THEN resp.body.val ELSE <<>>
            first == firstOfList(result, "Failed to fetch roles",
                                 "No roles found for the branch")
        IN  /\ reqs' = reqs \o FetchRequests(GetRoles(branchId[1]), resp)
            /\ lastBad' = Seen(lastBad, resp)
            /\ clean' = (clean /\ Usable(resp) /\ names # <<>>)
            /\ roles' = IF Usable(resp) THEN Some(names) ELSE Undefined
            /\ IF ~first.success
                 THEN /\ Settle(Thrown(first, "Failed to get connection string"))
                      /\ UNCHANGED defaultRole
                 ELSE /\ defaultRole' = first.data
                      /\ pc' = "uri"
                      /\ UNCHANGED outcome
    /\ UNCHANGED <<force, forceArg, databases, branches, listing, existingBranch, primaryBranchId, branchId,
                   newBranch, opIdx, attempts, delay, lastOp, finished, polls, sleeps,
                   defaultDB, connUri>>
    /\ UNCHANGED <<dbVars, connVars, pairVars, callVars, gateVars, legacyVars>>

\* lines 57-62 and 363-385: the connection_uri request, and createBranch's return
CreateBranch_ConnectionUri ==
    /\ pc = "uri"
    /\ \E resp \in Responses({JsonObject(uri) : uri \in Uris}) :
        LET result == fetchNeonAPI(resp)
            uri == IF Usable(resp) THEN resp.body.val ELSE ""
            connResult == connectionUri(result)
        IN  /\ reqs' = reqs \o FetchRequests(
                          GetConnectionUri(branchId[1], defaultDB[1], defaultRole[1]), resp)
            /\ lastBad' = Seen(lastBad, resp)
            /\ clean' = (clean /\ Usable(resp) /\ ~FalsyString(uri))
            /\ connUri' = IF Usable(resp) THEN Some(resp.body.val) ELSE Undefined
            /\ IF ~connResult.success \/ connResult.data = Undefined
                    \/ FalsyString(connResult.data[1])
                 THEN Settle(Thrown(connResult, "Failed to get connection string"))
                 ELSE Settle(Returned(connResult.data[1]))
    /\ UNCHANGED <<force, forceArg, databases, roles, branches, listing, existingBranch, primaryBranchId, branchId,
                   newBranch, opIdx, attempts, delay, lastOp, finished, polls, sleeps,
                   defaultDB, defaultRole>>
    /\ UNCHANGED <<dbVars, connVars, pairVars, callVars, gateVars, legacyVars>>

\* a later createBranch invocation on the same project (cli.ts line 89, one per run
\* of the CLI): the adapter's locals start afresh, the project keeps its branches
CreateBranch_Again ==
    /\ pc = "done"
    /\ Len(history) < MaxCalls - 1
    /\ history' = Append(history,
                         [created |-> IF newBranch = Undefined THEN Undefined
                                                               ELSE Some(newBranch[1].id),
                          awaited |-> newBranch # Undefined
                                        /\ finished = 1..newBranch[1].nops])
    /\ pc' = "check"
    /\ listing' = Undefined
    /\ existingBranch' = Undefined
    /\ primaryBranchId' = Undefined
    /\ branchId' = Undefined
    /\ newBranch' = Undefined
    /\ opIdx' = 0
    /\ attempts' = 0
    /\ delay' = BaseDelay
    /\ lastOp' = Undefined
    /\ finished' = {}
    /\ polls' = 0
    /\ reqs' = <<>>
    /\ sleeps' = <<>>
    /\ defaultDB' = Undefined
    /\ defaultRole' = Undefined
    /\ connUri' = Undefined
    /\ databases' = Undefined
    /\ roles' = Undefined
    /\ clean' = TRUE
    /\ lastBad' = Undefined
    /\ outcome' = Pending
    /\ UNCHANGED <<force, forceArg, branches>>
    /\ UNCHANGED <<dbVars, connVars, pairVars, gateVars, legacyVars>>

NextAdapter ==
    \/ CreateBranch_Check
    \/ CreateBranch_Handle
    \/ CreateBranch_Create
    \/ CreateBranch_Poll
    \/ CreateBranch_Databases
    \/ CreateBranch_Roles
    \/ CreateBranch_ConnectionUri

\* createBranch called again after it settled
NextRetry ==
    \/ NextAdapter
    \/ CreateBranch_Again

(***************************************************************************)
(* The target database, runMigrations and runCheck                         *)
(***************************************************************************)
MaxJobs == 3
InitialVersion == "0.1.0"
requiredTables == <<"trifecta_cache_entries", "trifecta_migrations">>

\* a database nobody has migrated: either table may already be there
Database(cache, migrations) ==
    [extension |-> FALSE, cache |-> cache, index |-> FALSE, function |-> FALSE,
     trigger |-> FALSE, migrations |-> migrations,
     rows |-> <<>>,      \* trifecta_migrations: <<[id, version, applied_at]>>
     serial |-> 0,       \* last value of trifecta_migrations_id_seq
     now |-> 1]          \* NOW() of the next statement batch

\* the columns of trifecta_migrations under a unique constraint (id SERIAL PRIMARY KEY)
UniqueColumns == {"id"}
\* INSERT ... ON CONFLICT DO NOTHING: the row is dropped only when it collides with a
\* stored row on a unique column
Conflicts(rows, new) ==
    \E k \in 1..Len(rows) : \E c \in UniqueColumns : rows[k][c] = new[c]
InsertOnConflictDoNothing(d, version) ==
    LET new == [id |-> d.serial + 1, version |-> version, applied_at |-> d.now]
    IN  [d EXCEPT !.serial = d.serial + 1,
                  !.rows = IF Conflicts(d.rows, new) THEN d.rows ELSE Append(d.rows, new)]

\* the script of runMigrations, statement by statement (one implicit transaction)
CreateExtension(d) == [d EXCEPT !.extension = TRUE]
CreateCacheTable(d) == [d EXCEPT !.cache = TRUE]
CreateIndex(d) == [d EXCEPT !.index = TRUE]
CreateFunction(d) == [d EXCEPT !.function = TRUE]
RecreateTrigger(d) == [d EXCEPT !.trigger = TRUE]
CreateMigrationsTable(d) == [d EXCEPT !.migrations = TRUE]
MigrationScript(d) ==
    LET done == InsertOnConflictDoNothing(
                    CreateMigrationsTable(RecreateTrigger(CreateFunction(
                        CreateIndex(CreateCacheTable(CreateExtension(d)))))),
                    InitialVersion)
    IN  [done EXCEPT !.now = d.now + 1]

\* the tables of requiredTables present in the database
TablesPresent(d) ==
    {requiredTables[k] : k \in {k \in 1..2 :
        (k = 1 /\ d.cache) \/ (k = 2 /\ d.migrations)}}
\* every order in which the rows of a set can come back
Orderings(S) ==
    {q \in [1..Cardinality(S) -> S] : \A a, b \in 1..Cardinality(S) : a # b => q[a] # q[b]}
Includes(q, x) == \E k \in 1..Len(q) : q[k] = x
\* the filter without its negation: the tables found are reported missing
MissingTablesInverted(found) == SelectSeq(requiredTables, LAMBDA t : Includes(found, t))
\* requiredTables.filter((table) => !foundTables.includes(table))
MissingTables(found) == SelectSeq(requiredTables, LAMBDA t : ~Includes(found, t))
\* `if (foundTables.includes("trifecta_migrations"))`
NeedsVersionQuery(found) == Includes(found, "trifecta_migrations")
\* SELECT version ... ORDER BY applied_at DESC LIMIT 1, then rows[0].version
LatestVersions(d) ==
    {Some(d.rows[k].version) : k \in {k \in 1..Len(d.rows) :
        \A m \in 1..Len(d.rows) : d.rows[m].applied_at <= d.rows[k].applied_at}}
VersionAnswers(d) == IF d.rows = <<>> THEN {Undefined} ELSE LatestVersions(d)

\* DatabaseCheckResult
CheckResult(found, version) ==
    [connection |-> TRUE,
     tablesExist |-> Len(MissingTables(found)) = 0,
     version |-> version,
     missingTables |-> IF Len(MissingTables(found)) > 0
                         THEN Some(MissingTables(found)) ELSE Undefined]
CheckFailed ==
    [connection |-> FALSE, tablesExist |-> FALSE, version |-> Undefined,
     missingTables |-> Undefined]

NoJob == <<>>
\* a running invocation: kind, position, queries issued, pool.end() calls, what
\* the try block left (a value to return or an error to rethrow)
Job(kind, at, queries, found, ends, failed, result) ==
    <<[kind |-> kind, at |-> at, queries |-> queries, found |-> found, ends |-> ends,
       failed |-> failed, result |-> result]>>

InitDb ==
    /\ \E cache \in BOOLEAN, migrations \in BOOLEAN : db = Database(cache, migrations)
    /\ job = NoJob
    /\ runs = <<>>

IdleDb ==
    /\ db = Database(FALSE, FALSE)
    /\ job = NoJob
    /\ runs = <<>>

\* runMigrations, lines 68-78: the pool is opened
Migrations_Open ==
    /\ job = NoJob
    /\ Len(runs) < MaxJobs
    /\ job' = Job("migrate", "query", <<>>, <<>>, 0, FALSE, CheckFailed)
    /\ UNCHANGED <<db, runs>>
    /\ UNCHANGED <<adapterVars, connVars, pairVars, callVars, gateVars, legacyVars>>

\* lines 79-127: the script runs, or pool.query rejects
Migrations_Query ==
    /\ job # NoJob /\ job[1].kind = "migrate" /\ job[1].at = "query"
    /\ \E ok \in BOOLEAN :
        /\ db' = IF ok THEN MigrationScript(db) ELSE db
        /\ job' = Job("migrate", "end", <<"script">>, <<>>, 0, ~ok, CheckFailed)
    /\ UNCHANGED runs
    /\ UNCHANGED <<adapterVars, connVars, pairVars, callVars, gateVars, legacyVars>>

\* pool.end() as the last statement of the try block, not in a finally block
PoolEndedOnSuccessOnly(j) == IF j.failed THEN j.ends ELSE j.ends + 1
\* lines 128-130 and 187-189: the finally block calls pool.end() on every path
PoolEnded(j) == j.ends + 1

\* how an invocation settles once its finally block ran pool.end(): a rejection of
\* pool.end() replaces what the try or catch block left, else runMigrations rethrows
\* the error of the script (lines 125-127)
Settled(j, endOk) ==
    [kind |-> j.kind,
     settled |-> IF endOk /\ ~(j.kind = "migrate" /\ j.failed) THEN "resolved" ELSE "rejected",
     error |-> IF ~endOk THEN "pool.end"
               ELSE IF j.kind = "migrate" /\ j.failed THEN "script" ELSE "",
     result |-> j.result, queries |-> j.queries, found |-> j.found,
     failed |-> j.failed, endOk |-> endOk,
     ends |-> PoolEnded(j), tables |-> TablesPresent(db)]

\* lines 128-130 and 187-189: finally { await pool.end() }
Job_End ==
    /\ job # NoJob /\ job[1].at = "end"
    /\ \E endOk \in BOOLEAN :
        runs' = Append(runs, Settled(job[1], endOk))
    /\ job' = NoJob
    /\ UNCHANGED db
    /\ UNCHANGED <<adapterVars, connVars, pairVars, callVars, gateVars, legacyVars>>

\* runCheck, lines 136-147: the pool is opened and SELECT 1 is sent
Check_Select1 ==
    /\ job = NoJob
    /\ Len(runs) < MaxJobs
    /\ \E ok \in BOOLEAN :
        job' = IF ok THEN Job("check", "tables", <<"SELECT 1">>, <<>>, 0, FALSE, CheckFailed)
                     ELSE Job("check", "end", <<"SELECT 1">>, <<>>, 0, TRUE, CheckFailed)
    /\ UNCHANGED <<db, runs>>
    /\ UNCHANGED <<adapterVars, connVars, pairVars, callVars, gateVars, legacyVars>>

\* lines 148-181: the table query; without a ledger table the result is built here
Check_Tables ==
    /\ job # NoJob /\ job[1].kind = "check" /\ job[1].at = "tables"
    /\ \E ok \in BOOLEAN, found \in Orderings(TablesPresent(db)) :
        LET queries == Append(job[1].queries, "tables")
        IN  job' = IF ~ok THEN Job("check", "end", queries, <<>>, 0, TRUE, CheckFailed)
                   ELSE IF NeedsVersionQuery(found)
                     THEN Job("check", "version", queries, found, 0, FALSE, CheckFailed)
                     ELSE Job("check", "end", queries, found, 0, FALSE,
                              CheckResult(found, Undefined))
    /\ UNCHANGED <<db, runs>>
    /\ UNCHANGED <<adapterVars, connVars, pairVars, callVars, gateVars, legacyVars>>

\* lines 164-181: the version query and the result
Check_Version ==
    /\ job # NoJob /\ job[1].kind = "check" /\ job[1].at = "version"
    /\ \E ok \in BOOLEAN, version \in VersionAnswers(db) :
        LET queries == Append(job[1].queries, "version")
        IN  job' = IF ~ok THEN Job("check", "end", queries, job[1].found, 0, TRUE, CheckFailed)
                   ELSE Job("check", "end", queries, job[1].found, 0, FALSE,
                            CheckResult(job[1].found, version))
    /\ UNCHANGED <<db, runs>>
    /\ UNCHANGED <<adapterVars, connVars, pairVars, callVars, gateVars, legacyVars>>

NextDb ==
    \/ Migrations_Open
    \/ Migrations_Query
    \/ Check_Select1
    \/ Check_Tables
    \/ Check_Version
    \/ Job_End

(***************************************************************************)
(* DBConnection: the pooled / serverless query gateway and transaction()   *)
(***************************************************************************)
MaxTx == 2
poolSize == 5

\* a constructor that creates the pool in either mode
DBConnectionBothModes(useServerless) ==
    [sqlFunction |-> useServerless, pool |-> TRUE, inUse |-> 0]
\* the object after the constructor ran (lines 44-52): exactly one of the two is set
DBConnection(useServerless) ==
    [sqlFunction |-> useServerless, pool |-> ~useServerless, inUse |-> 0]

\* a transaction() invocation: position, the statements it sent on its client and
\* the release() calls (in order), whether pool.connect() gave it a client, whether
\* the callback raised, the error to rethrow, how it settled
Tx(at, log, client, raised, error, settled) ==
    [at |-> at, log |-> log, client |-> client, raised |-> raised, error |-> error,
     settled |-> settled]
NewTx == Tx("idle", <<>>, FALSE, FALSE, "", "")

InitConn ==
    /\ \E useServerless \in BOOLEAN : conn = DBConnection(useServerless)
    /\ txs = [i \in 1..MaxTx |-> NewTx]

IdleConn ==
    /\ conn = DBConnection(TRUE)
    /\ txs = [i \in 1..MaxTx |-> NewTx]

\* a transaction that leaves without releasing its client
FinallyWithoutRelease(log) == log
\* `finally { client.release() }`, then the call settles
Finally(log) == Append(log, "RELEASE")
\* `catch (error) { await client.query("ROLLBACK"); ... }`
Catch(t, error, raised) ==
    Tx("rollback", Append(t.log, "ROLLBACK"), TRUE, raised, error, "")

\* a transaction() that skips the mode check
PoolMissingIgnored(c) == FALSE
\* `if (!this.pool)`
PoolMissing(c) == ~c.pool

\* lines 120-125: the mode check, then pool.connect() is requested
Transaction_Call(i) ==
    /\ txs[i].at = "idle"
    /\ txs' = [txs EXCEPT ![i] =
                 IF PoolMissing(conn)
                   THEN Tx("done", <<>>, FALSE, FALSE,
                           "Transactions are only available with standard pool (not serverless)",
                           "rejected")
                   ELSE Tx("connect", <<>>, FALSE, FALSE, "", "")]
    /\ UNCHANGED conn
    /\ UNCHANGED <<adapterVars, dbVars, pairVars, callVars, gateVars, legacyVars>>

\* lines 125-128: pool.connect() settles; with a client, BEGIN is sent on it
Transaction_Connect(i) ==
    /\ txs[i].at = "connect"
    /\ conn.inUse < poolSize
    /\ \E ok \in BOOLEAN :
        IF ok
          THEN /\ txs' = [txs EXCEPT ![i] = Tx("begin", <<"BEGIN">>, TRUE, FALSE, "", "")]
               /\ conn' = [conn EXCEPT !.inUse = conn.inUse + 1]
          ELSE /\ txs' = [txs EXCEPT ![i] = Tx("done", <<>>, FALSE, FALSE, "connect failed", "rejected")]
               /\ UNCHANGED conn
    /\ UNCHANGED <<adapterVars, dbVars, pairVars, callVars, gateVars, legacyVars>>

\* lines 128-129: BEGIN settles; the callback is invoked, or the catch block runs
Transaction_Begin(i) ==
    /\ txs[i].at = "begin"
    /\ \E ok \in BOOLEAN :
        txs' = [txs EXCEPT ![i] =
                  IF ok THEN Tx("callback", Append(txs[i].log, "CALLBACK"), TRUE, FALSE, "", "")
                        ELSE Catch(txs[i], "BEGIN failed", FALSE)]
    /\ UNCHANGED conn
    /\ UNCHANGED <<adapterVars, dbVars, pairVars, callVars, gateVars, legacyVars>>

\* lines 129-130: the callback settles; COMMIT is sent, or the catch block runs
Transaction_Callback(i) ==
    /\ txs[i].at = "callback"
    /\ \E ok \in BOOLEAN :
        txs' = [txs EXCEPT ![i] =
                  IF ok THEN Tx("commit", Append(txs[i].log, "COMMIT"), TRUE, FALSE, "", "")
                        ELSE Catch(txs[i], "callback raised", TRUE)]
    /\ UNCHANGED conn
    /\ UNCHANGED <<adapterVars, dbVars, pairVars, callVars, gateVars, legacyVars>>

\* lines 130-137: COMMIT settles; the result is returned through finally, or the
\* catch block runs
Transaction_Commit(i) ==
    /\ txs[i].at = "commit"
    /\ \E ok \in BOOLEAN :
        IF ok
          THEN /\ txs' = [txs EXCEPT ![i] = Tx("done", Finally(txs[i].log), TRUE, FALSE, "", "resolved")]
               /\ conn' = [conn EXCEPT !.inUse = conn.inUse - 1]
          ELSE /\ txs' = [txs EXCEPT ![i] = Catch(txs[i], "COMMIT failed", FALSE)]
               /\ UNCHANGED conn
    /\ UNCHANGED <<adapterVars, dbVars, pairVars, callVars, gateVars, legacyVars>>

\* lines 133-137: ROLLBACK settles; the error (or ROLLBACK's own) leaves through finally
Transaction_Rollback(i) ==
    /\ txs[i].at = "rollback"
    /\ \E ok \in BOOLEAN :
        txs' = [txs EXCEPT ![i] =
                  Tx("done", Finally(txs[i].log), TRUE, txs[i].raised,
                     IF ok THEN txs[i].error ELSE "ROLLBACK failed", "rejected")]
    /\ conn' = [conn EXCEPT !.inUse = conn.inUse - 1]
    /\ UNCHANGED <<adapterVars, dbVars, pairVars, callVars, gateVars, legacyVars>>

NextTx ==
    \E i \in 1..MaxTx :
        \/ Transaction_Call(i)
        \/ Transaction_Connect(i)
        \/ Transaction_Begin(i)
        \/ Transaction_Callback(i)
        \/ Transaction_Commit(i)
        \/ Transaction_Rollback(i)

(***************************************************************************)
(* DBConnection: the constructor with its background table verification,   *)
(* query() and close(), next to transaction()                              *)
(***************************************************************************)
\* the callers' query() invocations and the close() invocations
Callers == {1, 2}
Closers == {1, 2}
\* what the constructor is given: a connection string (by option or environment) or
\* none, and the two flags as they are after the defaults were merged (lines 25-42)
Options == [connectionString : BOOLEAN, useServerless : BOOLEAN, checkTables : BOOLEAN]

\* the fields as declared (lines 20-21), before or without the constructor's body
Unconstructed == [sqlFunction |-> FALSE, pool |-> FALSE, inUse |-> 0]

\* a constructor whose verification promise has no rejection handler
VerificationRejectedUncaught(g, late) ==
    [g EXCEPT !.verify = "rejected", !.unhandled = TRUE, !.late = late]
\* lines 55-63 and 87-89: checkTablesExist rejects, the .catch handler logs the error
VerificationRejected(g, late) == [g EXCEPT !.verify = "logged", !.late = late]

\* lines 24-66: how the constructor ends; in pooled mode with checkTables its call of
\* checkTablesExist() has already handed the verification query to the pool
Constructed(o) ==
    [options |-> o,
     constructed |-> IF o.connectionString THEN "ok" ELSE "threw",
     mode |-> IF ~o.connectionString THEN "none"
              ELSE IF o.useServerless THEN "sql" ELSE "pool",
     verify |-> IF o.connectionString /\ ~o.useServerless /\ o.checkTables
                  THEN "sent" ELSE "off",
     unhandled |-> FALSE,
     late |-> FALSE]

\* lines 96-117: the mode a query() call is dispatched to
Dispatch(c) == IF c.sqlFunction THEN "sql" ELSE IF c.pool THEN "pool" ELSE "none"

\* a query() invocation: position, the mode it was dispatched to, the driver's answer,
\* how it settled and with which error
QueryCall(at, target, answer, settled, error) ==
    [at |-> at, target |-> target, answer |-> answer, settled |-> settled, error |-> error]
NoQuery == QueryCall("idle", "", "", "", "")
\* a close() invocation: position and how it settled
CloseCall(at, settled) == [at |-> at, settled |-> settled]
\* some close() invocation has resolved
Closed == \E i \in Closers : closes[i].settled = "resolved"

InitGate ==
    /\ \E o \in Options :
          /\ gate = Constructed(o)
          /\ conn = IF o.connectionString THEN DBConnection(o.useServerless) ELSE Unconstructed
    /\ txs = [i \in 1..MaxTx |-> NewTx]
    /\ queryCalls = [i \in Callers |-> NoQuery]
    /\ closes = [i \in Closers |-> CloseCall("idle", "")]

IdleGate ==
    /\ gate = Constructed([connectionString |-> TRUE, useServerless |-> TRUE,
                           checkTables |-> FALSE])
    /\ queryCalls = [i \in Callers |-> NoQuery]
    /\ closes = [i \in Closers |-> CloseCall("idle", "")]

\* lines 92-117: query() is called; it is handed to the active mode, or raises
Query_Call(i) ==
    /\ gate.constructed = "ok"
    /\ queryCalls[i].at = "idle"
    /\ queryCalls' = [queryCalls EXCEPT ![i] =
                     IF Dispatch(conn) = "none"
                       THEN QueryCall("done", "none", "", "rejected",
                                      "Database connection not initialized")
                       ELSE QueryCall("sent", Dispatch(conn), "", "", "")]
    /\ UNCHANGED <<gate, closes, conn, txs>>
    /\ UNCHANGED <<adapterVars, dbVars, pairVars, callVars, legacyVars>>

\* lines 97-114: the driver answers; a failure is rethrown wrapped
Query_Settle(i) ==
    /\ queryCalls[i].at = "sent"
    /\ \E ok \in BOOLEAN :
        queryCalls' = [queryCalls EXCEPT ![i] =
                      IF ok THEN QueryCall("done", queryCalls[i].target, "ok", "resolved", "")
                            ELSE QueryCall("done", queryCalls[i].target, "failed", "rejected",
                                           IF queryCalls[i].target = "sql"
                                             THEN "Error executing query (serverless)"
                                             ELSE "Error executing query (pool)")]
    /\ UNCHANGED <<gate, closes, conn, txs>>
    /\ UNCHANGED <<adapterVars, dbVars, pairVars, callVars, legacyVars>>

\* lines 68-90 and 55-63: the verification query settles, at any time
Verify_Settle ==
    /\ gate.verify = "sent"
    /\ \E ok \in BOOLEAN, exists \in BOOLEAN :
        gate' = IF ~ok THEN VerificationRejected(gate, Closed)
                ELSE [gate EXCEPT !.verify = IF exists THEN "passed" ELSE "warned",
                                  !.late = Closed]
    /\ UNCHANGED <<queryCalls, closes, conn, txs>>
    /\ UNCHANGED <<adapterVars, dbVars, pairVars, callVars, legacyVars>>

\* lines 140-146: close() is called; with a pool it awaits pool.end()
Close_Call(i) ==
    /\ gate.constructed = "ok"
    /\ closes[i].at = "idle"
    /\ IF conn.pool
         THEN /\ closes' = [closes EXCEPT ![i] = CloseCall("ending", "")]
              /\ UNCHANGED conn
         ELSE /\ closes' = [closes EXCEPT ![i] = CloseCall("done", "resolved")]
              /\ conn' = [conn EXCEPT !.sqlFunction = FALSE]
    /\ UNCHANGED <<gate, queryCalls, txs>>
    /\ UNCHANGED <<adapterVars, dbVars, pairVars, callVars, legacyVars>>

\* lines 142-145: pool.end() settles; when it rejects, close() rejects there
Close_End(i) ==
    /\ closes[i].at = "ending"
    /\ \E ok \in BOOLEAN :
        IF ok
          THEN /\ closes' = [closes EXCEPT ![i] = CloseCall("done", "resolved")]
               /\ conn' = [conn EXCEPT !.pool = FALSE, !.sqlFunction = FALSE]
          ELSE /\ closes' = [closes EXCEPT ![i] = CloseCall("done", "rejected")]
               /\ UNCHANGED conn
    /\ UNCHANGED <<gate, queryCalls, txs>>
    /\ UNCHANGED <<adapterVars, dbVars, pairVars, callVars, legacyVars>>

\* one transaction() invocation on the constructed object
Gate_Transaction ==
    /\ gate.constructed = "ok"
    /\ \/ Transaction_Call(1)
       \/ Transaction_Connect(1)
       \/ Transaction_Begin(1)
       \/ Transaction_Callback(1)
       \/ Transaction_Commit(1)
       \/ Transaction_Rollback(1)

NextGate ==
    \/ \E i \in Callers : Query_Call(i) \/ Query_Settle(i)
    \/ \E i \in Closers : Close_Call(i) \/ Close_End(i)
    \/ Verify_Settle
    \/ Gate_Transaction

(***************************************************************************)
(* The legacy createNeonBranch (part_001) and NeonAdapter.createBranch run  *)
(* on one script of answers: the k-th answer goes to the k-th request of    *)
(* each                                                                    *)
(***************************************************************************)
Sides == {"adapter", "legacy"}
LegacyDelay == 2000

\* the answers in the scope of the comparison: no redirect, and a 2xx answer has a
\* JSON body of the shape the endpoint documents
WellFormed(Bodies) ==
    {r \in Responses(Bodies) : ~IsRedirect(r) /\ (IsOk(r) => Usable(r))}

\* part_001: `await fetch(...)`, `if (!response.ok) throw ...`, `await response.json()`;
\* a throw is written as a failed Result
legacyFetch(resp, msg) ==
    IF resp.fault THEN Fail(Error(resp.text, 0, ""))
    ELSE IF ~IsOk(resp) THEN Fail(Error(msg, resp.status, resp.text))
    ELSE IF ~resp.parses THEN Fail(Error("SyntaxError", 0, ""))
    ELSE Ok(resp.body)

\* part_001 lines 45-74
checkExistingBranches(resp, branchName) ==
    LET r == legacyFetch(resp, "Error listing branches")
    IN  IF ~r.success THEN r
        ELSE IF r.data[1].shape # "object" THEN Raise(TypeError)
        ELSE LET found == FindByName(r.data[1].val, branchName)
                 primary == FindPrimary(r.data[1].val)
             IN  IF primary = Undefined
                     THEN Fail(Error("Could not find primary branch", 0, ""))
                     ELSE Ok([existingBranch |-> found,
                              primaryBranchId |-> primary[1].id])

\* part_001 lines 84-102: the DELETE answered; its body is not read when ok
legacyDeleted(resp) ==
    IF resp.fault THEN Fail(Error(resp.text, 0, ""))
    ELSE IF ~IsOk(resp) THEN Fail(Error("Error deleting existing branch", resp.status, resp.text))
    ELSE OkVoid

\* part_001 lines 115-138: the POST answered
legacyPosted(resp) ==
    LET r == legacyFetch(resp, "Error creating branch")
    IN  IF ~r.success THEN r
        ELSE IF r.data[1].shape # "object" THEN Raise(TypeError)
        ELSE Ok(r.data[1].val)

\* part_001 lines 227-245: what one iteration of the legacy waitForOperation decides
legacyPollVerdict(resp) ==
    IF resp.fault \/ ~IsOk(resp) \/ ~resp.parses THEN "error"
    ELSE IF resp.body.shape # "object" THEN "raise"
    ELSE IF resp.body.val.status = "finished" THEN "finished"
    ELSE IF resp.body.val.status = "failed" THEN "failed"
    ELSE "pending"

\* a legacy loop that runs one iteration less
legacyMayRetryShort(n) == n < maxAttempts - 1
\* part_001 line 224: `attemps < maxAttempts`, maxAttempts = 30
legacyMayRetry(n) == n < maxAttempts

\* part_001 lines 164-175 and 182-192: the first name of a listing
legacyFirstOfList(resp, msg, emptyMsg) ==
    LET r == legacyFetch(resp, msg)
    IN  IF ~r.success THEN r
        ELSE IF r.data[1].shape = "null" THEN Raise(TypeError)
        ELSE IF r.data[1].shape # "object" \/ Len(r.data[1].val) = 0
            THEN Fail(Error(emptyMsg, 0, ""))
        ELSE Ok(r.data[1].val[1])

\* part_001 lines 202-212
legacyConnectionUri(resp) ==
    LET r == legacyFetch(resp, "Error getting connection URI")
    IN  IF ~r.success THEN r
        ELSE IF r.data[1].shape = "null" THEN Raise(TypeError)
        ELSE IF r.data[1].shape # "object" \/ FalsyString(r.data[1].val)
            THEN Fail(Error("No connection URI found in response", 0, ""))
        ELSE Ok(r.data[1].val)

\* the locals of one implementation, the requests it issued (method, endpoint, body),
\* the sleeps it took and how it settled
NewSide ==
    [pc |-> "check", existing |-> Undefined, primaryId |-> Undefined,
     branchId |-> Undefined, created |-> Undefined, opIdx |-> 0, attempts |-> 0,
     delay |-> BaseDelay, defaultDB |-> Undefined, defaultRole |-> Undefined,
     reqs |-> <<>>, slept |-> <<>>, outcome |-> "", value |-> ""]

Requested(f, e) == [f EXCEPT !.reqs = Append(@, e)]
SideThrown(f) == [f EXCEPT !.pc = "done", !.outcome = "thrown"]
SideReturned(f, v) == [f EXCEPT !.pc = "done", !.outcome = "returned", !.value = v]
\* the step after the existing branch was looked at without force, or not found
SideResolved(f, existing, primaryId, forced) ==
    LET g == [f EXCEPT !.existing = existing, !.primaryId = Some(primaryId)]
    IN  IF existing = Undefined THEN [g EXCEPT !.pc = "create"]
        ELSE IF forced THEN [g EXCEPT !.pc = "delete"]
        ELSE IF NoBranchId(Some(existing[1].id)) THEN [g EXCEPT !.pc = "create"]
        ELSE [g EXCEPT !.pc = "databases", !.branchId = Some(existing[1].id)]

\* neonAdapter.ts lines 33-47, 195-260 / part_001 lines 27-36, 45-105: the listing
\* answered; without force the existing branch's id is taken with no request
SideCheck(s, f, resp) ==
    LET g == Requested(f, ListBranches)
        r == IF s = "adapter" THEN checkExistingBranch(fetchNeonAPI(resp), BranchName)
                              ELSE checkExistingBranches(resp, BranchName)
        forced == IF s = "adapter" THEN ShouldDelete(given.force) ELSE given.force
    IN  IF r.raised \/ ~r.success \/ r.data = Undefined THEN SideThrown(g)
        ELSE SideResolved(g, r.data[1].existingBranch, r.data[1].primaryBranchId, forced)

\* neonAdapter.ts lines 237-254 / part_001 lines 84-102: the DELETE answered
SideDelete(s, f, resp) ==
    LET g == Requested(f, DeleteBranch(f.existing[1].id))
        r == IF s = "adapter" THEN handleExistingBranchForced(fetchNeonAPI(resp))
                              ELSE legacyDeleted(resp)
    IN  IF r.raised \/ ~r.success THEN SideThrown(g) ELSE [g EXCEPT !.pc = "create"]

\* neonAdapter.ts lines 49-55, 312 / part_001 lines 37-38, 147: the branch id is handed
\* to getConnectionString; only the adapter refuses an empty one
SideCreated(s, f, id) ==
    IF s = "adapter" /\ FalsyString(id) THEN SideThrown(f)
    ELSE [f EXCEPT !.pc = "databases", !.branchId = Some(id)]

\* neonAdapter.ts lines 265-299 / part_001 lines 107-145: the POST answered
SideCreate(s, f, resp) ==
    LET g == Requested(f, PostBranch(BranchName, f.primaryId[1]))
        r == IF s = "adapter" THEN createBranchPosted(fetchNeonAPI(resp))
                              ELSE legacyPosted(resp)
    IN  IF r.raised \/ ~r.success THEN SideThrown(g)
        ELSE IF r.data[1].nops > 0
            THEN [g EXCEPT !.created = r.data, !.pc = "wait", !.opIdx = 1, !.attempts = 0,
                           !.delay = BaseDelay]
            ELSE SideCreated(s, [g EXCEPT !.created = r.data], r.data[1].id)

\* neonAdapter.ts lines 299-312, 390-437 / part_001 lines 140-147, 215-251: one
\* iteration of waitForOperation
SidePoll(s, f, resp) ==
    LET g == Requested(f, GetOperation(OperationIds[f.opIdx]))
        n == f.attempts + 1
        verdict == IF s = "adapter" THEN PollVerdict(fetchNeonAPI(resp))
                                    ELSE legacyPollVerdict(resp)
        again == IF s = "adapter" THEN MayRetry(n) ELSE legacyMayRetry(n)
        d == IF s = "adapter" THEN NextDelay(f.delay) ELSE LegacyDelay
    IN  CASE verdict = "finished" ->
               IF IsLastOperation(f.opIdx, f.created[1])
                 THEN SideCreated(s, g, f.created[1].id)
                 ELSE [g EXCEPT !.opIdx = f.opIdx + 1, !.attempts = 0, !.delay = BaseDelay]
          [] verdict = "pending" ->
               LET h == [g EXCEPT !.attempts = n, !.delay = d, !.slept = Append(@, d)]
               IN  IF again THEN h ELSE SideThrown(h)
          [] OTHER -> SideThrown(g)

\* neonAdapter.ts lines 318-340 / part_001 lines 157-175
SideDatabases(s, f, resp) ==
    LET g == Requested(f, GetDatabases(f.branchId[1]))
        r == IF s = "adapter"
               THEN firstOfList(fetchNeonAPI(resp), "Failed to fetch databases",
                                "No databases found in the branch")
               ELSE legacyFirstOfList(resp, "Error getting database list",
                                      "No databases found in the branch")
    IN  IF r.raised \/ ~r.success THEN SideThrown(g)
        ELSE [g EXCEPT !.defaultDB = r.data, !.pc = "roles"]

\* neonAdapter.ts lines 342-361 / part_001 lines 177-192
SideRoles(s, f, resp) ==
    LET g == Requested(f, GetRoles(f.branchId[1]))
        r == IF s = "adapter"
               THEN firstOfList(fetchNeonAPI(resp), "Failed to fetch roles",
                                "No roles found for the branch")
               ELSE legacyFirstOfList(resp, "Error getting roles",
                                      "No roles found for the branch")
    IN  IF r.raised \/ ~r.success THEN SideThrown(g)
        ELSE [g EXCEPT !.defaultRole = r.data, !.pc = "uri"]

\* neonAdapter.ts lines 57-62, 363-385 / part_001 lines 40-42, 196-212
SideConnectionUri(s, f, resp) ==
    LET g == Requested(f, GetConnectionUri(f.branchId[1], f.defaultDB[1], f.defaultRole[1]))
        r == IF s = "adapter" THEN connectionUri(fetchNeonAPI(resp))
                              ELSE legacyConnectionUri(resp)
    IN  IF r.raised \/ ~r.success \/ r.data = Undefined THEN SideThrown(g)
        ELSE SideReturned(g, r.data[1])

\* the sides waiting for the answer to their next request at position `at`
At(at) == {s \in Sides : sides[s].pc = at}
\* the implementation whose request the answer is made for
Asked(at) == IF "adapter" \in At(at) THEN sides["adapter"] ELSE sides["legacy"]

InitLegacy ==
    /\ \E f \in BOOLEAN, bs \in SeqsUpTo(Branch, MaxBranches) :
          given = [force |-> f, branches |-> bs]
    /\ sides = [s \in Sides |-> NewSide]

IdleLegacy ==
    /\ given = [force |-> FALSE, branches |-> <<>>]
    /\ sides = [s \in Sides |-> [NewSide EXCEPT !.pc = "idle"]]

Both_Check ==
    /\ At("check") # {}
    /\ \E resp \in WellFormed({JsonObject(given.branches)}) :
        sides' = [s \in Sides |-> IF s \in At("check") THEN SideCheck(s, sides[s], resp)
                                                        ELSE sides[s]]
    /\ UNCHANGED given
    /\ UNCHANGED <<adapterVars, dbVars, connVars, pairVars, callVars, gateVars>>

Both_Delete ==
    /\ At("delete") # {}
    /\ \E resp \in WellFormed({JsonObject(<<>>)}) :
        sides' = [s \in Sides |-> IF s \in At("delete") THEN SideDelete(s, sides[s], resp)
                                                         ELSE sides[s]]
    /\ UNCHANGED given
    /\ UNCHANGED <<adapterVars, dbVars, connVars, pairVars, callVars, gateVars>>

Both_Create ==
    /\ At("create") # {}
    /\ \E resp \in WellFormed({JsonObject([id |-> NewBranchId, name |-> BranchName,
                                            nops |-> n]) : n \in 0..MaxOps}) :
        sides' = [s \in Sides |-> IF s \in At("create") THEN SideCreate(s, sides[s], resp)
                                                         ELSE sides[s]]
    /\ UNCHANGED given
    /\ UNCHANGED <<adapterVars, dbVars, connVars, pairVars, callVars, gateVars>>

Both_Poll ==
    /\ At("wait") # {}
    /\ \E resp \in WellFormed({JsonObject([id |-> OperationIds[Asked("wait").opIdx],
                                            action |-> act, status |-> st]) :
                                   st \in OperationStatuses, act \in OperationActions}) :
        sides' = [s \in Sides |-> IF s \in At("wait") THEN SidePoll(s, sides[s], resp)
                                                       ELSE sides[s]]
    /\ UNCHANGED given
    /\ UNCHANGED <<adapterVars, dbVars, connVars, pairVars, callVars, gateVars>>

Both_Databases ==
    /\ At("databases") # {}
    /\ \E resp \in WellFormed({JsonObject(q) : q \in NamesUpTo(DatabaseNames, MaxList)}) :
        sides' = [s \in Sides |-> IF s \in At("databases")
                                    THEN SideDatabases(s, sides[s], resp) ELSE sides[s]]
    /\ UNCHANGED given
    /\ UNCHANGED <<adapterVars, dbVars, connVars, pairVars, callVars, gateVars>>

Both_Roles ==
    /\ At("roles") # {}
    /\ \E resp \in WellFormed({JsonObject(q) : q \in NamesUpTo(RoleNames, MaxList)}) :
        sides' = [s \in Sides |-> IF s \in At("roles") THEN SideRoles(s, sides[s], resp)
                                                        ELSE sides[s]]
    /\ UNCHANGED given
    /\ UNCHANGED <<adapterVars, dbVars, connVars, pairVars, callVars, gateVars>>

Both_ConnectionUri ==
    /\ At("uri") # {}
    /\ \E resp \in WellFormed({JsonObject(u) : u \in Uris}) :
        sides' = [s \in Sides |-> IF s \in At("uri")
                                    THEN SideConnectionUri(s, sides[s], resp) ELSE sides[s]]
    /\ UNCHANGED given
    /\ UNCHANGED <<adapterVars, dbVars, connVars, pairVars, callVars, gateVars>>

NextBoth ==
    \/ Both_Check
    \/ Both_Delete
    \/ Both_Create
    \/ Both_Poll
    \/ Both_Databases
    \/ Both_Roles
    \/ Both_ConnectionUri

(***************************************************************************)
(* Two createBranch invocations running concurrently on one NeonAdapter    *)
(* against one project: every await is a point where the other may run     *)
(***************************************************************************)
MaxPairOps == 1
MaxPairPolls == 2
Invocations == {1, 2}
\* the branch name each invocation was called with
PairNames == <<BranchName, "dev">>
\* the ids the remote gives to the branches it creates, in order of creation
PairNewIds == <<"br-new", "br-new-2">>

\* one activation record for all invocations, as fields of the adapter would be
FrameShared(i) == 1
\* the activation record of invocation i: `const` / `let` locals, one per call
Frame(i) == i
NewFrame ==
    [existing |-> Undefined, primaryId |-> Undefined, branchId |-> Undefined,
     created |-> Undefined, opIdx |-> 0, attempts |-> 0,
     defaultDB |-> Undefined, defaultRole |-> Undefined, writers |-> {}]

\* the project as GET /branches lists it
Live(bs) == SelectSeq(bs, LAMBDA b : b.live)
Removed(bs, id) == [k \in 1..Len(bs) |-> IF bs[k].id = id THEN [bs[k] EXCEPT !.live = FALSE] ELSE bs[k]]
Made(bs) == Cardinality({k \in 1..Len(bs) : bs[k].id \in {PairNewIds[1], PairNewIds[2]}})
\* the answers of one remote call: the expected body, or a refusal
PairResponses(body) == {Response(200, "null", TRUE, body), Response(500, "null", FALSE, JsonNull)}
Sent(i, e) == [by |-> i, endpoint |-> e]
Running(at) == [pc |-> at, outcome |-> ""]
Ended(how) == [pc |-> "done", outcome |-> how]

\* the adapter both invocations run on: this.force is set, nothing else is kept
SharedAdapter ==
    /\ force \in BOOLEAN
    /\ forceArg = Undefined
    /\ databases = Undefined
    /\ roles = Undefined
    /\ branches = <<>>
    /\ pc = "idle"
    /\ listing = Undefined
    /\ existingBranch = Undefined
    /\ primaryBranchId = Undefined
    /\ branchId = Undefined
    /\ newBranch = Undefined
    /\ opIdx = 0
    /\ attempts = 0
    /\ delay = BaseDelay
    /\ lastOp = Undefined
    /\ finished = {}
    /\ polls = 0
    /\ reqs = <<>>
    /\ sleeps = <<>>
    /\ defaultDB = Undefined
    /\ defaultRole = Undefined
    /\ connUri = Undefined
    /\ clean = TRUE
    /\ lastBad = Undefined
    /\ outcome = Pending
    /\ history = <<>>

InitPair ==
    /\ calls = [i \in Invocations |-> Running("check")]
    /\ frames = [i \in Invocations |-> NewFrame]
    /\ \E bs \in SeqsUpTo(Branch, MaxBranches + 1) :
          /\ \A k, m \in 1..Len(bs) : bs[k].name = bs[m].name => k = m
          /\ remote = [k \in 1..Len(bs) |->
                         [id |-> bs[k].id, name |-> bs[k].name, primary |-> bs[k].primary,
                          live |-> TRUE]]
    /\ wire = {}

IdlePair ==
    /\ calls = [i \in Invocations |-> Running("idle")]
    /\ frames = [i \in Invocations |-> NewFrame]
    /\ remote = <<>>
    /\ wire = {}

\* invocation i writes its locals
Store(i, f) == [frames EXCEPT ![Frame(i)] = [f EXCEPT !.writers = @ \cup {i}]]
Throw(i) == calls' = [calls EXCEPT ![i] = Ended("thrown")]
Goto(i, at) == calls' = [calls EXCEPT ![i] = Running(at)]

\* lines 33-47 and 195-227: checkExistingBranch of invocation i
Pair_Check(i) ==
    /\ calls[i].pc = "check"
    /\ \E resp \in PairResponses(JsonObject(Live(remote))) :
        LET branchResult == checkExistingBranch(fetchNeonAPI(resp), PairNames[i])
            f == frames[Frame(i)]
        IN  /\ wire' = wire \cup {Sent(i, ListBranches)}
            /\ IF branchResult.raised \/ ~branchResult.success \/ branchResult.data = Undefined
                 THEN Throw(i) /\ UNCHANGED frames
                 ELSE /\ frames' = Store(i, [f EXCEPT
                                    !.existing = branchResult.data[1].existingBranch,
                                    !.primaryId = Some(branchResult.data[1].primaryBranchId)])
                      /\ Goto(i, IF branchResult.data[1].existingBranch # Undefined
                                   THEN "handle" ELSE "create")
    /\ UNCHANGED remote
    /\ UNCHANGED <<adapterVars, dbVars, connVars, callVars, gateVars, legacyVars>>

\* lines 41-47 and 232-260: handleExistingBranch of invocation i
Pair_Handle(i) ==
    /\ calls[i].pc = "handle"
    /\ LET f == frames[Frame(i)]
           existing == f.existing[1]
       IN  IF ShouldDelete(force)
             THEN \E resp \in PairResponses(JsonObject(<<>>)) :
                    LET handleResult == handleExistingBranchForced(fetchNeonAPI(resp))
                    IN  /\ wire' = wire \cup {Sent(i, DeleteBranch(existing.id))}
                        /\ remote' = IF IsOk(resp) THEN Removed(remote, existing.id) ELSE remote
                        /\ IF ~handleResult.success
                             THEN Throw(i) /\ UNCHANGED frames
                             ELSE /\ frames' = Store(i, [f EXCEPT !.branchId = handleResult.data])
                                  /\ Goto(i, IF NoBranchId(handleResult.data)
                                               THEN "create" ELSE "databases")
             ELSE LET handleResult == handleExistingBranchReuse(existing)
                  IN  /\ frames' = Store(i, [f EXCEPT !.branchId = handleResult.data])
                      /\ Goto(i, IF NoBranchId(handleResult.data) THEN "create" ELSE "databases")
                      /\ UNCHANGED <<wire, remote>>
    /\ UNCHANGED <<adapterVars, dbVars, connVars, callVars, gateVars, legacyVars>>

\* lines 49-55 and 265-299: the POST of createBranchWithEndpoint of invocation i
Pair_Create(i) ==
    /\ calls[i].pc = "create"
    /\ \E n \in 0..MaxPairOps :
        LET f == frames[Frame(i)]
            made == Made(remote)
            new == [id |-> PairNewIds[made + 1], name |-> PairNames[i],
                    ops |-> SubSeq(OperationIds, made * MaxPairOps + 1, made * MaxPairOps + n)]
        IN  \E resp \in PairResponses(JsonObject(new)) :
              LET posted == createBranchPosted(fetchNeonAPI(resp))
              IN  /\ wire' = wire \cup {Sent(i, PostBranch(PairNames[i], f.primaryId[1]))}
                  /\ remote' = IF IsOk(resp)
                                 THEN Append(remote, [id |-> new.id, name |-> new.name,
                                                      primary |-> FALSE, live |-> TRUE])
                                 ELSE remote
                  /\ IF posted.raised \/ ~posted.success
                       THEN Throw(i) /\ UNCHANGED frames
                       ELSE IF Len(posted.data[1].ops) > 0
                         THEN /\ frames' = Store(i, [f EXCEPT !.created = posted.data,
                                                              !.opIdx = 1, !.attempts = 0])
                              /\ Goto(i, "wait")
                         ELSE /\ frames' = Store(i, [f EXCEPT !.created = posted.data,
                                                              !.branchId = Some(posted.data[1].id)])
                              /\ Goto(i, "databases")
    /\ UNCHANGED <<adapterVars, dbVars, connVars, callVars, gateVars, legacyVars>>

\* lines 299-312 and 390-437: one iteration of waitForOperation of invocation i; the
\* remote reports an operation pending at most MaxPairPolls times
Pair_Poll(i) ==
    /\ calls[i].pc = "wait"
    /\ LET f == frames[Frame(i)]
           op == f.created[1].ops[f.opIdx]
       IN  \E st \in {"running", "finished", "failed"} :
             /\ st = "running" => f.attempts < MaxPairPolls
             /\ \E resp \in PairResponses(JsonObject([id |-> op, action |-> "create_branch",
                                                      status |-> st])) :
                  LET verdict == PollVerdict(fetchNeonAPI(resp))
                  IN  /\ wire' = wire \cup {Sent(i, GetOperation(op))}
                      /\ CASE verdict = "finished" ->
                                IF f.opIdx = Len(f.created[1].ops)
                                  THEN /\ frames' = Store(i, [f EXCEPT !.branchId = Some(f.created[1].id)])
                                       /\ Goto(i, "databases")
                                  ELSE /\ frames' = Store(i, [f EXCEPT !.opIdx = f.opIdx + 1,
                                                                       !.attempts = 0])
                                       /\ UNCHANGED calls
                           [] verdict = "pending" ->
                                /\ frames' = Store(i, [f EXCEPT !.attempts = f.attempts + 1])
                                /\ IF MayRetry(f.attempts + 1) THEN UNCHANGED calls ELSE Throw(i)
                           [] OTHER -> Throw(i) /\ UNCHANGED frames
    /\ UNCHANGED remote
    /\ UNCHANGED <<adapterVars, dbVars, connVars, callVars, gateVars, legacyVars>>

\* lines 57-60 and 318-340: the database listing of invocation i
Pair_Databases(i) ==
    /\ calls[i].pc = "databases"
    /\ LET f == frames[Frame(i)]
       IN  \E resp \in PairResponses(JsonObject(<<"neondb">>)) :
             LET first == firstOfList(fetchNeonAPI(resp), "Failed to fetch databases",
                                      "No databases found in the branch")
             IN  /\ wire' = wire \cup {Sent(i, GetDatabases(f.branchId[1]))}
                 /\ IF ~first.success
                      THEN Throw(i) /\ UNCHANGED frames
                      ELSE /\ frames' = Store(i, [f EXCEPT !.defaultDB = first.data])
                           /\ Goto(i, "roles")
    /\ UNCHANGED remote
    /\ UNCHANGED <<adapterVars, dbVars, connVars, callVars, gateVars, legacyVars>>

\* lines 342-361: the role listing of invocation i
Pair_Roles(i) ==
    /\ calls[i].pc = "roles"
    /\ LET f == frames[Frame(i)]
       IN  \E resp \in PairResponses(JsonObject(<<"owner">>)) :
             LET first == firstOfList(fetchNeonAPI(resp), "Failed to fetch roles",
                                      "No roles found for the branch")
             IN  /\ wire' = wire \cup {Sent(i, GetRoles(f.branchId[1]))}
                 /\ IF ~first.success
                      THEN Throw(i) /\ UNCHANGED frames
                      ELSE /\ frames' = Store(i, [f EXCEPT !.defaultRole = first.data])
                           /\ Goto(i, "uri")
    /\ UNCHANGED remote
    /\ UNCHANGED <<adapterVars, dbVars, connVars, callVars, gateVars, legacyVars>>

\* lines 57-62 and 363-385: the connection_uri request of invocation i, and its return
Pair_ConnectionUri(i) ==
    /\ calls[i].pc = "uri"
    /\ LET f == frames[Frame(i)]
       IN  \E resp \in PairResponses(JsonObject("postgresql://owner@host/neondb")) :
             LET connResult == connectionUri(fetchNeonAPI(resp))
             IN  /\ wire' = wire \cup {Sent(i, GetConnectionUri(f.branchId[1], f.defaultDB[1],
                                                                f.defaultRole[1]))}
                 /\ calls' = [calls EXCEPT ![i] =
                                IF ~connResult.success \/ connResult.data = Undefined
                                  THEN Ended("thrown") ELSE Ended("returned")]
    /\ UNCHANGED <<frames, remote>>
    /\ UNCHANGED <<adapterVars, dbVars, connVars, callVars, gateVars, legacyVars>>

NextPair ==
    \E i \in Invocations :
        \/ Pair_Check(i)
        \/ Pair_Handle(i)
        \/ Pair_Create(i)
        \/ Pair_Poll(i)
        \/ Pair_Databases(i)
        \/ Pair_Roles(i)
        \/ Pair_ConnectionUri(i)

(***************************************************************************)
(* Specifications                                                          *)
(***************************************************************************)
Init == InitAdapter /\ IdleDb /\ IdleConn /\ IdlePair /\ IdleGate /\ IdleLegacy
Next == NextAdapter
Spec == Init /\ [][Next]_vars
\* every request is answered and every sleep ends: a step that can be taken is taken
SpecLive == Init /\ [][Next]_vars /\ WF_vars(Next)

InitSpecDb == IdleAdapter /\ InitDb /\ IdleConn /\ IdlePair /\ IdleGate /\ IdleLegacy
SpecDb == InitSpecDb /\ [][NextDb]_vars

InitSpecTx == IdleAdapter /\ IdleDb /\ InitConn /\ IdlePair /\ IdleGate /\ IdleLegacy
SpecTx == InitSpecTx /\ [][NextTx]_vars

InitSpecForce == InitAdapterForce /\ IdleDb /\ IdleConn /\ IdlePair /\ IdleGate /\ IdleLegacy
SpecForce == InitSpecForce /\ [][NextAdapter]_vars

InitSpecRetry == InitAdapter /\ IdleDb /\ IdleConn /\ IdlePair /\ IdleGate /\ IdleLegacy
SpecRetry == InitSpecRetry /\ [][NextRetry]_vars

InitSpecGate == IdleAdapter /\ IdleDb /\ InitGate /\ IdlePair /\ IdleLegacy
SpecGate == InitSpecGate /\ [][NextGate]_vars

InitSpecBoth == IdleAdapter /\ IdleDb /\ IdleConn /\ IdlePair /\ IdleGate /\ InitLegacy
SpecBoth == InitSpecBoth /\ [][NextBoth]_vars

InitSpecPair == SharedAdapter /\ IdleDb /\ IdleConn /\ InitPair /\ IdleGate /\ IdleLegacy
SpecPair == InitSpecPair /\ [][NextPair]_vars

(***************************************************************************)
(* Properties of createBranch (specification Spec)                         *)
(***************************************************************************)
Deletes == {k \in 1..Len(reqs) : reqs[k].endpoint.method = "DELETE"}
Creates == {k \in 1..Len(reqs) : reqs[k].endpoint.method = "POST"}
Lookups ==
    {k \in 1..Len(reqs) :
        reqs[k].endpoint.ep \in {"branches/:id/databases", "branches/:id/roles", "connection_uri"}}
Listed == listing # Undefined
ListsPrimary == Listed /\ \E k \in 1..Len(listing[1]) : listing[1][k].primary
ListsName == Listed /\ \E k \in 1..Len(listing[1]) : listing[1][k].name = BranchName
\* the first listed primary branch / the first listed branch named BranchName
ListedPrimary == listing[1][Min({k \in 1..Len(listing[1]) : listing[1][k].primary})]
ListedNamed == listing[1][Min({k \in 1..Len(listing[1]) : listing[1][k].name = BranchName})]
PastCreation == pc \in {"databases", "roles", "uri"} \/ outcome.kind = "returned"

\* C1: listing with a primary and no branch named X, force=false: no DELETE, at most
\* one POST create and it names X with parent_id = the primary's id; once the
\* connection lookup starts exactly one POST was issued and every listed operation
\* was observed finished; the value returned is the non-empty uri of the
\* connection_uri response; and when every remote call succeeded the call returns.
C1_NewBranchProvisioned ==
    (ListsPrimary /\ ~ListsName /\ ~force) =>
        /\ Deletes = {}
        /\ Cardinality(Creates) <= 1
        /\ \A k \in Creates :
              /\ reqs[k].endpoint.parent = ListedPrimary.id
              /\ reqs[k].endpoint.name = BranchName
        /\ PastCreation =>
              /\ Cardinality(Creates) = 1
              /\ finished = 1..newBranch[1].nops
        /\ outcome.kind = "returned" =>
              /\ connUri # Undefined
              /\ outcome.value = connUri[1]
              /\ outcome.value # ""
        /\ (pc = "done" /\ clean) => outcome.kind = "returned"
C1_Witness ==
    /\ ListsPrimary /\ ~ListsName /\ ~force
    /\ Len(listing[1]) = 2 /\ listing[1][1].id # ListedPrimary.id
    /\ outcome.kind = "returned" /\ clean
    /\ newBranch[1].nops = 2

\* C2 (as claimed): listing with a branch named X and a primary, force=false: no
\* DELETE, no POST create, and every databases / roles / connection_uri request
\* carries the listed branch's id, whatever that id is.
C2_ReuseIssuesNoMutation ==
    (ListsPrimary /\ ListsName /\ ~force) =>
        /\ Deletes = {}
        /\ Creates = {}
        /\ \A k \in Lookups : reqs[k].endpoint.id = ListedNamed.id

\* what createBranch does on the reuse path once it is past it
C3_Body ==
    /\ Cardinality(Deletes) <= 1
    /\ pc # "handle" => Cardinality(Deletes) = 1
    /\ \A k \in Deletes : reqs[k].endpoint.id = ListedNamed.id
    /\ \A d \in Deletes : \A c \in Creates : d < c
    /\ outcome.kind = "returned" =>
          /\ newBranch # Undefined
          /\ Lookups # {}
          /\ \A k \in Lookups :
                /\ reqs[k].endpoint.id = newBranch[1].id
                /\ reqs[k].endpoint.id # ListedNamed.id

\* C3 (amended): listing with a branch named X and a primary branch, force=true:
\* exactly one DELETE, for the listed branch's id, before every POST create; a
\* returned connection string was looked up under the id of the create response,
\* never under the deleted id.
C3_ForceDeletesThenCreates == (ListsPrimary /\ ListsName /\ force) => C3_Body
\* C3 (as claimed): the same for any listing with a branch named X.
C3_AsClaimed == (ListsName /\ force) => C3_Body
C3_Witness ==
    /\ ListsPrimary /\ ListsName /\ force
    /\ outcome.kind = "returned"
    /\ ListedNamed.id = "br-old"
    /\ Cardinality(Creates) = 1

\* C4: a listing without a primary branch: createBranch throws 'Could not find
\* primary branch' and the GET of the listing is the only request it issued.
C4_NoPrimaryFailsFirst ==
    (Listed /\ ~ListsPrimary) =>
        /\ pc = "done"
        /\ outcome.kind = "thrown"
        /\ outcome.error = Error("Could not find primary branch", 0, "")
        /\ Len(reqs) = 1
        /\ reqs[1].endpoint.method = "GET" /\ reqs[1].endpoint.ep = "branches"
        /\ polls = 0
C4_Witness ==
    /\ Listed /\ ~ListsPrimary /\ ListsName /\ force
    /\ pc = "done"

FailedObserved == lastOp # Undefined /\ lastOp[1].status = "failed"
\* C5: once a poll observes `failed`, waitForOperation has returned the failure
\* carrying the operation's action, every earlier observation was slept on and this
\* one was not, and no status fetch and no sleep follows.
C5_FailedStopsPolling ==
    /\ [](FailedObserved =>
            /\ pc = "done"
            /\ outcome.kind = "thrown"
            /\ outcome.error = Error("Operation failed", 0, lastOp[1].action)
            /\ Len(sleeps) = polls - 1)
    /\ [][FailedObserved => UNCHANGED <<polls, sleeps, reqs>>]_vars
C5_Witness ==
    /\ FailedObserved
    /\ polls = 4 /\ Len(sleeps) = 3
    /\ opIdx = 2

TimedOut == outcome.error.msg = "Timed out waiting for operation to complete"
\* C6: a wait whose polls all returned a status other than finished / failed ends
\* after exactly 30 status fetches with the timed-out failure; the timed-out failure
\* is never reported earlier or later nor for an observed `failed`.
C6_TimeoutAfterThirty ==
    /\ polls <= 30
    /\ (pc = "wait" /\ Len(sleeps) = polls) => polls < 30
    /\ (polls = 30 /\ Len(sleeps) = 30) => (pc = "done" /\ outcome.kind = "thrown" /\ TimedOut)
    /\ TimedOut =>
          /\ polls = 30 /\ Len(sleeps) = 30
          /\ lastOp # Undefined /\ lastOp[1].status \notin {"finished", "failed"}
          /\ outcome.error # Error("Operation failed", 0, lastOp[1].action)
C6_Witness == TimedOut /\ polls = 30 /\ opIdx = 2

\* C10: a 3xx response makes the call fail with the error naming the Location header
\* value, no request goes to that location, and every request that carries the
\* Authorization header goes to https://console.neon.tech/api/v2.
C10_RedirectsRefused ==
    /\ \A k \in 1..Len(reqs) :
          reqs[k].headers.authorization => reqs[k].base = "https://console.neon.tech/api/v2"
    /\ (lastBad # Undefined /\ lastBad[1].status >= 300 /\ lastBad[1].status <= 399) =>
          /\ pc = "done"
          /\ outcome.kind = "thrown"
          /\ outcome.error = Error("Redirect detected to", 0, lastBad[1].location)
          /\ \A k \in 1..Len(reqs) : reqs[k].base # lastBad[1].location
C10_Witness ==
    /\ lastBad # Undefined /\ lastBad[1].status = 399
    /\ lastBad[1].location = "https://evil.example/api"
    /\ Len(reqs) > 3

(***************************************************************************)
(* Error handling and request discipline of createBranch (specification    *)
(* Spec)                                                                   *)
(***************************************************************************)
\* C11: fetchNeonAPI never raises and returns one Result for every outcome of the HTTP
\* call: success exactly for a 2xx answer whose body parsed, carrying the body; else a
\* failure carrying its error: the cause for a network fault, the status code and the
\* body text for a non-2xx non-redirect answer; and createBranch throws that error.
C11_FetchAlwaysReturnsResult ==
    /\ \A resp \in Responses({JsonObject(<<>>)}) :
          LET r == fetchNeonAPI(resp)
          IN  /\ ~r.raised
              /\ r.success <=> (IsOk(resp) /\ resp.parses)
              /\ r.success => (r.data = Some(resp.body) /\ r.error = Undefined)
              /\ ~r.success => (r.data = Undefined /\ r.error # Undefined)
    /\ outcome.kind = "returned" => lastBad = Undefined
    /\ lastBad # Undefined =>
          LET b == lastBad[1]
          IN  /\ pc = "done" /\ outcome.kind = "thrown" /\ ~outcome.escaped
              /\ b.fault => outcome.error = Error(b.text, 0, "")
              /\ (~b.fault /\ ~IsOk(b) /\ ~IsRedirect(b)) =>
                    outcome.error = Error("API error", b.status, b.text)
              /\ (IsOk(b) /\ ~b.parses) => outcome.error.msg = "SyntaxError"
C11_Witness ==
    /\ lastBad # Undefined /\ lastBad[1].status = 500
    /\ outcome.error = Error("API error", 500, "denied")
    /\ Len(reqs) >= 4

Issued(method, ep) ==
    {k \in 1..Len(reqs) : reqs[k].endpoint.method = method /\ reqs[k].endpoint.ep = ep}
\* C12: within one createBranch invocation the list-branches, delete-branch,
\* create-branch, list-databases, list-roles and connection_uri requests are each
\* issued at most once; each waitForOperation call polls one operation, nothing but
\* its status fetch is repeated, and after a request failed no request follows.
C12_OnlyThePollerRetries ==
    /\ Cardinality(Issued("GET", "branches")) <= 1
    /\ Cardinality(Issued("DELETE", "branches/:id")) <= 1
    /\ Cardinality(Issued("POST", "branches")) <= 1
    /\ Cardinality(Issued("GET", "branches/:id/databases")) <= 1
    /\ Cardinality(Issued("GET", "branches/:id/roles")) <= 1
    /\ Cardinality(Issued("GET", "connection_uri")) <= 1
    /\ \A k, m \in Issued("GET", "operations/:id") :
          reqs[k].endpoint.id = reqs[m].endpoint.id => k = m
    /\ polls > 0 => reqs[Len(reqs)].endpoint.ep = "operations/:id"
    /\ lastBad # Undefined => pc = "done"
C12_Witness ==
    /\ pc = "wait" /\ opIdx = 2 /\ polls = 3
    /\ Deletes # {} /\ Creates # {}

\* C13 (as claimed): a returned connection string was preceded by one of: (reuse) no
\* DELETE, no POST create, a branch named X listed; (replace) one DELETE of the listed
\* branch named X, then one POST create; (new) no DELETE, one POST create, no branch
\* named X listed.
C13_ThreeEndStates ==
    outcome.kind = "returned" =>
        \/ /\ Deletes = {} /\ Creates = {} /\ ListsName
        \/ /\ Cardinality(Deletes) = 1 /\ Cardinality(Creates) = 1 /\ ListsName
           /\ \A d \in Deletes : reqs[d].endpoint.id = ListedNamed.id
           /\ \A d \in Deletes : \A c \in Creates : d < c
        \/ /\ Deletes = {} /\ Cardinality(Creates) = 1 /\ ~ListsName


\* C14: getConnectionString issues list-databases, list-roles and connection_uri in
\* this order, each after the previous one answered a non-empty list; an empty database
\* list or an empty role list fails the call with no later request; an empty or missing
\* uri fails it; the connection_uri request names the first database and the first
\* role in listing order.
C14_LookupInListingOrder ==
    /\ \A d \in Issued("GET", "branches/:id/databases") :
       \A r \in Issued("GET", "branches/:id/roles") : d < r
    /\ \A r \in Issued("GET", "branches/:id/roles") :
       \A c \in Issued("GET", "connection_uri") : r < c
    /\ Issued("GET", "branches/:id/roles") # {} =>
          /\ Issued("GET", "branches/:id/databases") # {}
          /\ databases # Undefined /\ databases[1] # <<>>
    /\ Issued("GET", "connection_uri") # {} =>
          /\ Issued("GET", "branches/:id/roles") # {}
          /\ roles # Undefined /\ roles[1] # <<>>
    /\ databases = Some(<<>>) =>
          /\ outcome.kind = "thrown"
          /\ outcome.error = Error("No databases found in the branch", 0, "")
          /\ Issued("GET", "branches/:id/roles") = {} /\ Issued("GET", "connection_uri") = {}
    /\ roles = Some(<<>>) =>
          /\ outcome.kind = "thrown"
          /\ outcome.error = Error("No roles found for the branch", 0, "")
          /\ Issued("GET", "connection_uri") = {}
    /\ (Issued("GET", "connection_uri") # {} /\ (connUri = Undefined \/ connUri = Some(""))) =>
          outcome.kind = "thrown"
    /\ connUri = Some("") =>
          outcome.error = Error("No connection URI found in response", 0, "")
    /\ \A c \in Issued("GET", "connection_uri") :
          /\ reqs[c].endpoint.database = databases[1][1]
          /\ reqs[c].endpoint.role = roles[1][1]
          /\ reqs[c].endpoint.id = branchId[1]
C14_Witness ==
    /\ outcome.kind = "returned"
    /\ Len(databases[1]) = 2 /\ databases[1][1] # databases[1][2]
    /\ Len(roles[1]) = 2 /\ roles[1][1] # roles[1][2]

\* the stage of createBranch that issued the latest request
Stages == {"resolve", "destroy", "create", "lookup"}
FailedStage ==
    LET e == reqs[Len(reqs)].endpoint
    IN  IF e.ep = "branches" /\ e.method = "GET" THEN "resolve"
        ELSE IF e.method = "DELETE" THEN "destroy"
        ELSE IF e.method = "POST" \/ e.ep = "operations/:id" THEN "create"
        ELSE "lookup"
\* the errors createBranch throws for the failing results of a step
Failures(results, msg) ==
    {Thrown(r, msg).error : r \in {x \in results : x.raised \/ ~x.success}}
ResolveErrors ==
    Failures({checkExistingBranch(fetchNeonAPI(r), BranchName) :
                r \in Responses({JsonObject(bs) : bs \in SeqsUpTo(Branch, MaxBranches)})},
             "Failed to check existing branches")
DestroyErrors ==
    Failures({handleExistingBranchForced(fetchNeonAPI(r)) : r \in Responses({JsonObject(<<>>)})},
             "Failed to handle existing branch")
CreateErrors ==
    Failures({createBranchPosted(fetchNeonAPI(r)) :
                r \in Responses({JsonObject([id |-> NewBranchId, name |-> BranchName, nops |-> 0])})},
             "Failed to create branch with endpoint")
    \cup Failures({Fail(OrElse(fetchNeonAPI(r).error, "Failed to check operation status")) :
                r \in {x \in Responses({JsonObject([id |-> OperationIds[1], action |-> a,
                                                     status |-> "finished"]) :
                                             a \in OperationActions}) :
                          PollVerdict(fetchNeonAPI(x)) = "error"}},
             "Failed to create branch with endpoint")
    \cup {TypeError,
          Error("Timed out waiting for operation to complete", 0, ""),
          Error("Failed to create branch with endpoint", 0, "")}
    \cup {Error("Operation failed", 0, a) : a \in OperationActions}
LookupErrors ==
    Failures({firstOfList(fetchNeonAPI(r), "Failed to fetch databases",
                          "No databases found in the branch") :
                r \in Responses({JsonObject(l) : l \in SeqsUpTo(DatabaseNames, MaxList)})},
             "Failed to get connection string")
    \cup Failures({firstOfList(fetchNeonAPI(r), "Failed to fetch roles",
                          "No roles found for the branch") :
                r \in Responses({JsonObject(l) : l \in SeqsUpTo(RoleNames, MaxList)})},
             "Failed to get connection string")
    \cup Failures({connectionUri(fetchNeonAPI(r)) : r \in Responses({JsonObject(u) : u \in Uris})},
             "Failed to get connection string")
StageErrors(stage) ==
    IF stage = "resolve" THEN ResolveErrors
    ELSE IF stage = "destroy" THEN DestroyErrors
    ELSE IF stage = "create" THEN CreateErrors
    ELSE LookupErrors

\* the error thrown is one the stage of the latest request produces, and nothing runs
\* after it
FirstFailurePropagates ==
    outcome.kind = "thrown" =>
        /\ pc = "done"
        /\ outcome.error \in StageErrors(FailedStage)
\* C15 (as claimed): when createBranch fails it throws the error of the first failing
\* step, no later step runs, and the error identifies the stage that produced it: no
\* other stage throws the same error.
C15_FirstFailureNamesStage ==
    /\ FirstFailurePropagates
    /\ outcome.kind = "thrown" =>
          \A stage \in Stages \ {FailedStage} : outcome.error \notin StageErrors(stage)

\* C16 (as claimed): no exception escapes checkExistingBranch, handleExistingBranch,
\* createBranchWithEndpoint, getConnectionString or waitForOperation: every error
\* createBranch throws comes from a failure Result it inspected.
C16_StepsReturnResults ==
    outcome.kind = "thrown" => ~outcome.escaped

(***************************************************************************)
(* Ordering of the operation waits of createBranch (specification Spec)    *)
(***************************************************************************)
\* the listed operations whose status was fetched
OpFetched ==
    {j \in 1..Len(OperationIds) :
        \E k \in Issued("GET", "operations/:id") : reqs[k].endpoint.id = OperationIds[j]}
\* a waitForOperation call of this invocation ended without `finished`
WaitEndedBadly == pc = "done" /\ polls > 0

\* C21: the operations of the create response are awaited one at a time in listed
\* order: the status of an operation is fetched only after every operation before it
\* was observed finished; and once a wait fails (failed status, timeout, failed status
\* fetch) no later operation is fetched and createBranch throws that failure.
C21_OperationsAwaitedInOrder ==
    /\ \A k, m \in Issued("GET", "operations/:id") :
          k < m => \E i, j \in 1..Len(OperationIds) :
                      /\ i < j
                      /\ reqs[k].endpoint.id = OperationIds[i]
                      /\ reqs[m].endpoint.id = OperationIds[j]
    /\ finished \subseteq OpFetched
    /\ \A j \in OpFetched : 1..(j - 1) \subseteq finished
    /\ WaitEndedBadly =>
          /\ opIdx \notin finished
          /\ OpFetched = 1..opIdx
          /\ outcome.kind = "thrown"
          /\ FailedObserved => outcome.error = Error("Operation failed", 0, lastOp[1].action)
          /\ Len(sleeps) = polls => TimedOut
          /\ lastBad # Undefined => outcome.error = fetchNeonAPI(lastBad[1]).error[1]
C21_Witness ==
    /\ WaitEndedBadly
    /\ newBranch[1].nops = 2 /\ opIdx = 1
    /\ lastBad # Undefined /\ lastBad[1].fault
    /\ polls = 3

\* C22: within a createBranch that created a branch, no list-databases, list-roles or
\* connection_uri request is issued until every operation listed in the create
\* response was observed finished, and those requests name the created branch.
C22_LookupAfterAllOperations ==
    /\ (Creates # {} /\ Lookups # {}) =>
          /\ newBranch # Undefined
          /\ finished = 1..newBranch[1].nops
          /\ \A k \in Lookups : \A c \in Creates :
                c < k /\ reqs[k].endpoint.id = newBranch[1].id
    /\ (Creates # {} /\ pc \in {"databases", "roles", "uri"}) =>
          finished = 1..newBranch[1].nops
C22_Witness ==
    /\ Creates # {} /\ Deletes # {}
    /\ Cardinality(Lookups) = 2
    /\ newBranch[1].nops = 2

(***************************************************************************)
(* createBranch and the remote branch set (specification Spec)             *)
(***************************************************************************)
\* the ids of the listed branches marked primary
ListedPrimaryIds == {listing[1][k].id : k \in {k \in 1..Len(listing[1]) : listing[1][k].primary}}

\* C24 (as claimed): createBranch never issues a DELETE for a branch listed with
\* primary=true, whatever X and force are, and the parent_id of every POST create is
\* the id of a branch this invocation has not deleted.
C24_PrimaryNeverDeleted ==
    Listed =>
        /\ \A d \in Deletes : reqs[d].endpoint.id \notin ListedPrimaryIds
        /\ \A c \in Creates : \A d \in Deletes :
              reqs[c].endpoint.parent # reqs[d].endpoint.id

\* C25 (as claimed): whenever createBranch throws, the remote branch set is the one
\* that was listed: no branch was deleted and no branch was created.
C25_ThrowLeavesBranchSet ==
    (Listed /\ outcome.kind = "thrown") => branches = listing[1]

(***************************************************************************)
(* The backoff of waitForOperation (specification Spec)                    *)
(***************************************************************************)
\* C26 (as claimed): the sleep after the first pending observation is the base delay
\* of 1000 ms, every later sleep is twice the one before it up to the cap of 16000 ms
\* (1000, 2000, 4000, 8000, 16000, 16000, ...); no sleep exceeds the cap and no sleep
\* is shorter than the one before it.
C26_SleepsStartAtBase ==
    /\ sleeps # <<>> => sleeps[1] = BaseDelay
    /\ \A k \in 1..(Len(sleeps) - 1) :
          /\ sleeps[k + 1] = IF sleeps[k] * 2 < MaxDelay THEN sleeps[k] * 2 ELSE MaxDelay
          /\ sleeps[k] <= sleeps[k + 1]
    /\ \A k \in 1..Len(sleeps) : sleeps[k] <= MaxDelay

\* the latest status fetch of the wait in progress did not answer a parsed 2xx
StatusFetchFailed == polls > 0 /\ lastBad # Undefined
\* C27: a status fetch that comes back as a failure Result (network fault, 3xx,
\* non-2xx) on attempt n, for every n in 1..30 and whatever was observed before, makes
\* waitForOperation return that failure at once: the attempt is not slept on, no
\* status fetch follows and createBranch throws the error of the fetch.
C27_FetchFailureEndsWait ==
    StatusFetchFailed =>
        /\ pc = "done"
        /\ outcome.kind = "thrown" /\ ~outcome.escaped
        /\ outcome.error = fetchNeonAPI(lastBad[1]).error[1]
        /\ reqs[Len(reqs)].endpoint.ep = "operations/:id"
        /\ attempts = polls /\ polls <= maxAttempts
        /\ Len(sleeps) = polls - 1
        /\ lastOp = Undefined
C27_Witness ==
    /\ StatusFetchFailed
    /\ polls = 30
    /\ lastBad[1].status = 300
    /\ opIdx = 2

\* the milliseconds slept by the wait in progress
TotalSleep ==
    LET sum[k \in 0..Len(sleeps)] == IF k = 0 THEN 0 ELSE sum[k - 1] + sleeps[k]
    IN  sum[Len(sleeps)]
\* the latest status fetch of the wait in progress observed a pending status
PendingObserved == lastOp # Undefined /\ lastOp[1].status \in PendingStatuses
\* C28: one waitForOperation call sleeps once per pending observation, at most 30
\* times, and the sum of its sleeps is at most 30 x 16000 ms.
C28_TotalSleepBounded ==
    /\ Len(sleeps) <= maxAttempts
    /\ TotalSleep <= maxAttempts * MaxDelay
    /\ polls = 0 => sleeps = <<>>
    /\ polls > 0 => Len(sleeps) = IF PendingObserved THEN polls ELSE polls - 1
C28_Witness ==
    /\ Len(sleeps) = 30
    /\ TotalSleep = 2000 + 4000 + 8000 + 27 * 16000
    /\ PendingObserved

(***************************************************************************)
(* Termination of createBranch (specification SpecLive)                    *)
(***************************************************************************)
\* the requests other than operation status fetches
OtherRequests == {k \in 1..Len(reqs) : reqs[k].endpoint.ep # "operations/:id"}
\* C29: when every request is answered, every createBranch invocation settles, after
\* at most 1 list, 1 delete, 1 create and 3 lookup requests and at most 30 status
\* fetches for each listed operation; no sequence of answers keeps it polling.
C29_CreateBranchSettles ==
    /\ <>(pc = "done" /\ outcome.kind # "pending")
    /\ [](/\ Cardinality(OtherRequests) <= 6
          /\ polls <= maxAttempts
          /\ newBranch = Undefined => OpFetched = {}
          /\ newBranch # Undefined => Cardinality(OpFetched) <= newBranch[1].nops
          /\ Cardinality(Issued("GET", "operations/:id")) = Cardinality(OpFetched))
C29_Witness ==
    /\ pc = "done" /\ outcome.kind = "returned"
    /\ Cardinality(OtherRequests) = 6
    /\ Cardinality(OpFetched) = 2

(***************************************************************************)
(* Successive createBranch invocations (specification SpecRetry)           *)
(***************************************************************************)
\* the earlier invocations that created the branch `id`
CreatorsOf(id) == {k \in 1..Len(history) : history[k].created = Some(id)}
\* C23 (as claimed): over successive createBranch invocations on one project, a
\* connection_uri request is only issued for a branch that this invocation created
\* and awaited, or that no earlier invocation created without observing all of its
\* operations finished.
C23_UriOnlyForAwaitedBranch ==
    \A c \in Issued("GET", "connection_uri") :
        IF Creates # {}
          THEN finished = 1..newBranch[1].nops
          ELSE \A k \in CreatorsOf(reqs[c].endpoint.id) : history[k].awaited

(***************************************************************************)
(* Properties of runMigrations and runCheck (specification SpecDb)         *)
(***************************************************************************)
LedgerRows(version) == {k \in 1..Len(db.rows) : db.rows[k].version = version}
Ran(k, kind) == k <= Len(runs) /\ runs[k].kind = kind /\ ~runs[k].failed /\ runs[k].endOk

\* C7 (as claimed): after runMigrations ran twice in sequence on one database, the
\* script and pool.end() succeeding both times, neither run raised and the ledger
\* holds exactly one row of version 0.1.0.
C7_TwoRunsLeaveOneLedgerRow ==
    (Len(runs) = 2 /\ Ran(1, "migrate") /\ Ran(2, "migrate")) =>
        /\ runs[1].settled = "resolved"
        /\ runs[2].settled = "resolved"
        /\ Cardinality(LedgerRows("0.1.0")) = 1

ExpectedMissing(F) ==
    IF F = {"trifecta_cache_entries", "trifecta_migrations"} THEN Undefined
    ELSE IF F = {"trifecta_cache_entries"} THEN Some(<<"trifecta_migrations">>)
    ELSE IF F = {"trifecta_migrations"} THEN Some(<<"trifecta_cache_entries">>)
    ELSE Some(<<"trifecta_cache_entries", "trifecta_migrations">>)
\* C8: a runCheck whose queries (and pool.end) all succeed resolves with
\* connection=true, tablesExist = (both tables present), missingTables = the required
\* tables not present (undefined when none); the version query is issued exactly when
\* trifecta_migrations is present.
C8_CheckReportsMissingTables ==
    /\ \A k \in 1..Len(runs) :
          Ran(k, "check") =>
              /\ runs[k].settled = "resolved"
              /\ runs[k].result.connection = TRUE
              /\ runs[k].result.tablesExist =
                    (runs[k].tables = {"trifecta_cache_entries", "trifecta_migrations"})
              /\ runs[k].result.missingTables = ExpectedMissing(runs[k].tables)
              /\ Includes(runs[k].queries, "version") <=>
                    ("trifecta_migrations" \in runs[k].tables)
    /\ \A k \in 1..Len(runs) :
          (runs[k].kind = "check" /\ Includes(runs[k].queries, "version")) =>
              "trifecta_migrations" \in runs[k].tables
    /\ (job # NoJob /\ Includes(job[1].queries, "version")) => db.migrations
C8_Witness ==
    \E k \in 1..Len(runs) :
        /\ Ran(k, "check")
        /\ runs[k].tables = {"trifecta_cache_entries"}
        /\ runs[k].result.tablesExist = FALSE
        /\ runs[k].result.missingTables = Some(<<"trifecta_migrations">>)

\* C17 (as claimed): runCheck never raises: when the liveness query, the table query
\* or the version query fails it resolves with {connection: false, tablesExist:
\* false}, and it resolves also when pool.end() fails.
C17_CheckNeverRaises ==
    \A k \in 1..Len(runs) :
        runs[k].kind = "check" =>
            /\ runs[k].settled = "resolved"
            /\ runs[k].failed => runs[k].result = CheckFailed

\* C30: runMigrations and runCheck call pool.end() exactly once on every exit path,
\* whether the script or the queries succeeded or raised, and never before the try
\* block is left; runMigrations rejects with the error of a failed script once the
\* pool was ended, and resolves when the script succeeded.
C30_PoolEndedOnce ==
    /\ job # NoJob => job[1].ends = 0
    /\ \A k \in 1..Len(runs) :
          /\ runs[k].ends = 1
          /\ (runs[k].kind = "migrate" /\ runs[k].endOk) =>
                IF runs[k].failed
                  THEN runs[k].settled = "rejected" /\ runs[k].error = "script"
                  ELSE runs[k].settled = "resolved" /\ runs[k].error = ""
C30_Witness ==
    /\ Len(runs) = 3
    /\ runs[1].kind = "migrate" /\ runs[1].failed /\ runs[1].endOk
    /\ runs[2].kind = "check" /\ runs[2].failed /\ Len(runs[2].queries) = 2
    /\ runs[3].kind = "migrate" /\ ~runs[3].failed

(***************************************************************************)
(* Properties of DBConnection.transaction (specification SpecTx)           *)
(***************************************************************************)
Positions(log, x) == {k \in 1..Len(log) : log[k] = x}

\* C9: a transaction that acquired a client releases it exactly once, as the last
\* thing before it settles, on every exit path, and not before; when the unit of work
\* raised, ROLLBACK was sent on the client before the release and COMMIT never.
C9_ClientReleasedOnce ==
    /\ \A i \in 1..MaxTx :
          LET t == txs[i]
              releases == Positions(t.log, "RELEASE")
          IN  /\ (t.client /\ t.settled # "") =>
                    /\ Cardinality(releases) = 1
                    /\ t.log[Len(t.log)] = "RELEASE"
              /\ (~t.client \/ t.settled = "") => releases = {}
              /\ t.raised =>
                    /\ Positions(t.log, "COMMIT") = {}
                    /\ Cardinality(Positions(t.log, "ROLLBACK")) = 1
                    /\ \A r \in releases : \A b \in Positions(t.log, "ROLLBACK") : b < r
    /\ conn.inUse = Cardinality({i \in 1..MaxTx : txs[i].client /\ txs[i].settled = ""})
C9_Witness ==
    /\ conn.pool
    /\ txs[1].raised /\ txs[1].settled = "rejected" /\ txs[1].error = "ROLLBACK failed"
    /\ txs[1].log = <<"BEGIN", "CALLBACK", "ROLLBACK", "RELEASE">>
    /\ txs[2].settled = "rejected" /\ txs[2].error = "COMMIT failed"

\* C18: on a DBConnection constructed in serverless mode every transaction() call
\* rejects with the explicit error, having acquired no client, sent no BEGIN, COMMIT
\* or ROLLBACK and not invoked the callback.
C18_ServerlessTransactionRejected ==
    ~conn.pool =>
        /\ conn.sqlFunction
        /\ conn.inUse = 0
        /\ \A i \in 1..MaxTx :
              /\ txs[i].at \in {"idle", "done"}
              /\ txs[i].log = <<>>
              /\ ~txs[i].client
              /\ txs[i].at = "done" =>
                    /\ txs[i].settled = "rejected"
                    /\ txs[i].error =
                          "Transactions are only available with standard pool (not serverless)"
C18_Witness ==
    /\ ~conn.pool
    /\ \A i \in 1..MaxTx : txs[i].at = "done" /\ txs[i].settled = "rejected"

\* C32 (as claimed): in every execution of transaction() at most one of COMMIT and
\* ROLLBACK is sent on the acquired client; ROLLBACK is never sent after COMMIT, also
\* when the COMMIT statement itself fails.
C32_CommitOrRollback ==
    \A i \in 1..MaxTx :
        \/ Positions(txs[i].log, "COMMIT") = {}
        \/ Positions(txs[i].log, "ROLLBACK") = {}

\* C33 (as claimed): when the unit of work raised error E, the transaction() call
\* rejects with that same error E, also when the ROLLBACK statement itself fails.
C33_CallbackErrorRethrown ==
    \A i \in 1..MaxTx :
        (txs[i].raised /\ txs[i].at = "done") =>
            /\ txs[i].settled = "rejected"
            /\ txs[i].error = "callback raised"

(***************************************************************************)
(* Properties of the DBConnection object (specification SpecGate)          *)
(***************************************************************************)
\* C31: from the successful construction of a DBConnection until a close() has
\* completed exactly one of sqlFunction and pool is set and it is the one the
\* constructor chose; every query() call is dispatched to that mode and to no other;
\* once a close() has completed neither is set and every query() call made from then
\* on raises 'Database connection not initialized'.
C31_OneModeUntilClosed ==
    /\ [](gate.constructed = "ok" =>
            /\ ~Closed => (conn.sqlFunction # conn.pool /\ Dispatch(conn) = gate.mode)
            /\ Closed => (~conn.sqlFunction /\ ~conn.pool)
            /\ \A i \in Callers :
                  /\ queryCalls[i].at # "idle" => queryCalls[i].target \in {gate.mode, "none"}
                  /\ queryCalls[i].target = "none" =>
                        /\ Closed
                        /\ queryCalls[i].settled = "rejected"
                        /\ queryCalls[i].error = "Database connection not initialized")
    /\ [][\A i \in Callers :
            (queryCalls[i].at = "idle" /\ queryCalls'[i].at # "idle") =>
                IF Closed THEN queryCalls'[i].target = "none"
                          ELSE queryCalls'[i].target = gate.mode]_vars
C31_Witness ==
    /\ gate.mode = "pool" /\ Closed
    /\ \E i \in Closers : closes[i].settled = "rejected"
    /\ queryCalls[1].target = "pool" /\ queryCalls[1].settled = "resolved"
    /\ queryCalls[2].target = "none"

\* C34: the table verification the constructor starts in pooled mode with checkTables
\* runs in the background: the constructor raises only for a missing connection
\* string; a failed verification ends caught and logged under every interleaving with
\* query(), transaction() and close(), also when a close() completed first; it is
\* never an unhandled rejection, and a caller's query fails only on its own answer.
C34_VerificationContained ==
    /\ gate.constructed = "ok" <=> gate.options.connectionString
    /\ gate.verify # "off" <=>
          (gate.options.connectionString /\ ~gate.options.useServerless
             /\ gate.options.checkTables)
    /\ gate.verify \in {"off", "sent", "passed", "warned", "logged"}
    /\ ~gate.unhandled
    /\ \A i \in Callers :
          /\ queryCalls[i].settled = "resolved" <=> queryCalls[i].answer = "ok"
          /\ queryCalls[i].settled = "rejected" =>
                (queryCalls[i].answer = "failed" \/ queryCalls[i].target = "none")
    /\ txs[1].settled = "rejected" => txs[1].error # ""
C34_Witness ==
    /\ gate.verify = "logged" /\ gate.late
    /\ queryCalls[1].settled = "resolved"
    /\ txs[1].settled = "resolved"
    /\ queryCalls[2].settled = "rejected" /\ queryCalls[2].target = "none"

C20_ForceArgumentDecides ==
    (ListsPrimary /\ ListsName /\ pc # "handle" /\ forceArg # Undefined) =>
        (Deletes # {} <=> forceArg[1])

\* the name of the branch the remote knows, or knew, under an id
NamesOfId(id) == {remote[k].name : k \in {k \in 1..Len(remote) : remote[k].id = id}}
\* the operations listed by the create response invocation i received
OperationsOf(i) ==
    IF frames[Frame(i)].created = Undefined THEN {}
    ELSE {frames[Frame(i)].created[1].ops[k] : k \in 1..Len(frames[Frame(i)].created[1].ops)}
\* C19: under every interleaving of createBranch(X) and createBranch(Y), X # Y, on one
\* adapter and one project: a DELETE, a databases / roles / connection_uri lookup is
\* for a branch of the issuing invocation's own name, a POST create creates a branch
\* of its own name, a status fetch is for an operation of its own create response, and
\* the locals of an invocation are written by that invocation only.
C19_ConcurrentCallsIsolated ==
    /\ \A w \in wire :
          LET e == w.endpoint
          IN  /\ e.method = "DELETE" => NamesOfId(e.id) = {PairNames[w.by]}
              /\ e.method = "POST" => e.name = PairNames[w.by]
              /\ e.ep = "operations/:id" => e.id \in OperationsOf(w.by)
              /\ e.ep \in {"branches/:id/databases", "branches/:id/roles", "connection_uri"} =>
                    NamesOfId(e.id) = {PairNames[w.by]}
    /\ \A i \in Invocations : frames[Frame(i)].writers \subseteq {i}
    /\ \A i \in Invocations :
          (calls[i].outcome = "returned") =>
              NamesOfId(frames[Frame(i)].branchId[1]) = {PairNames[i]}
C19_Witness ==
    /\ calls[1].pc = "wait" /\ calls[2].pc = "wait"
    /\ \E w \in wire : w.by = 1 /\ w.endpoint.method = "DELETE"
    /\ \E w \in wire : w.by = 2 /\ w.endpoint.method = "DELETE"
    /\ frames[1].attempts = MaxPairPolls /\ frames[2].attempts = 1

====
